---------------------------- MODULE Spec2Model ----------------------------
(***************************************************************************)
(* Adaptive hue segmentation of colorswatcher: the AdaptiveSampler, the    *)
(* three subdivision drivers (FIFO queue, LIFO stack, recursion), the      *)
(* segment builder, merger and duplicate-name resolver, and the streaming  *)
(* and collect-all entry points.                                           *)
(*                                                                         *)
(* Hues are whole degrees (every hue the drivers produce is an integer).   *)
(* A color name is a sequence of one-character strings, so that            *)
(* canonicalizeName can be computed character by character.  A             *)
(* ColorDescriptor is [name, h]: h stands for the rgb/hsl payload, which   *)
(* the test oracle derives from the sampled hue.                           *)
(***************************************************************************)
EXTENDS Integers, Sequences, FiniteSets, TLC

\* ------------------------------------------------------------------------
\* Program constants
\* ------------------------------------------------------------------------
\* Faulty variant of MIN_SPAN: ranges of one degree are still split.
MinSpanZero == 1 - 1

\* Ranges no wider than this are not subdivided.
MIN_SPAN == 1

FULL_CIRCLE == 360

\* ------------------------------------------------------------------------
\* Small sequence helpers
\* ------------------------------------------------------------------------
Range(s) == { s[i] : i \in DOMAIN s }

Last(s) == s[Len(s)]

Front(s) == SubSeq(s, 1, Len(s) - 1)

\* Op applied to the value of e.  An operator receives its argument as an
\* expression and a LET definition stands for its body; With computes e
\* once and hands Op the result.
With(e, Op(_)) == CHOOSE r \in { Op(v) : v \in {e} } : TRUE

\* The members of a set of natural numbers in ascending order: the numbers
\* up to its greatest member, without those that are not in it.
SetToSortedSeq(S) ==
  IF S = {} THEN << >>
  ELSE With(CHOOSE x \in S : \A y \in S : y <= x, LAMBDA max :
         SelectSeq([i \in 1 .. max + 1 |-> i - 1], LAMBDA x : x \in S))

\* ------------------------------------------------------------------------
\* Names and canonical keys
\* ------------------------------------------------------------------------
UpperChars ==
  << "A","B","C","D","E","F","G","H","I","J","K","L","M",
     "N","O","P","Q","R","S","T","U","V","W","X","Y","Z" >>

LowerChars ==
  << "a","b","c","d","e","f","g","h","i","j","k","l","m",
     "n","o","p","q","r","s","t","u","v","w","x","y","z" >>

DigitChars == << "0","1","2","3","4","5","6","7","8","9" >>

\* String.prototype.toLowerCase, one character at a time.
toLowerCase(c) ==
  IF \E i \in DOMAIN UpperChars : UpperChars[i] = c
  THEN LowerChars[CHOOSE i \in DOMAIN UpperChars : UpperChars[i] = c]
  ELSE c

\* The character class [a-z0-9] (the i flag adds A-Z).
IsAlnum(c) ==
  c \in Range(LowerChars) \cup Range(UpperChars) \cup Range(DigitChars)

canonicalizeName(name) ==
  SelectSeq([i \in DOMAIN name |-> toLowerCase(name[i])], IsAlnum)

\* ------------------------------------------------------------------------
\* Hue normalizer
\* ------------------------------------------------------------------------
\* JavaScript's %: the remainder takes the sign of the dividend.
JsRem(a, b) == IF a >= 0 THEN a % b ELSE 0 - ((0 - a) % b)

normalizeHue(hue) ==
  LET wrapped == JsRem(hue, FULL_CIRCLE)
  IN  IF wrapped < 0 THEN wrapped + FULL_CIRCLE ELSE wrapped

\* Faulty variant of keyFor: the key is the hue as given.
KeyWithoutNormalize(hue) == hue

\* AdaptiveSampler.keyFor: toFixed(6) leaves a whole number unchanged.
keyFor(hue) == normalizeHue(hue)

\* Faulty variant of Midpoint: the ceiling taken as the floor plus one.
MidpointFloorPlusOne(startHue, endHue) ==
  LET span == endHue - startHue
  IN  startHue + (span \div 2) + 1

\* Math.ceil(startHue + span / 2) for whole startHue and span.
Midpoint(startHue, endHue) ==
  LET span == endHue - startHue
  IN  startHue + ((span + 1) \div 2)

\* ------------------------------------------------------------------------
\* Segments: span, dedupe, merge, build
\* ------------------------------------------------------------------------
Seg(s, e, c) == [startHue |-> s, endHue |-> e, color |-> c]

\* What Map.get answers for a missing key.
undefined == [name |-> << >>, h |-> 0 - 1]

segmentSpan(segment) ==
  IF segment.endHue >= segment.startHue
  THEN segment.endHue - segment.startHue
  ELSE segment.endHue + FULL_CIRCLE - segment.startHue

\* First loop of dedupeSegments: chosen maps a canonical key to the index
\* of the segment kept for it (the Map holds object references; an index
\* identifies the object).
RECURSIVE DedupeChoose(_, _, _)
DedupeChoose(segments, i, chosen) ==
  IF i > Len(segments) THEN chosen
  ELSE LET key == canonicalizeName(segments[i].color.name)
       IN  IF key \notin DOMAIN chosen
              \/ segmentSpan(segments[i]) > segmentSpan(segments[chosen[key]])
           THEN With([k \in DOMAIN chosen \cup {key} |->
                        IF k = key THEN i ELSE chosen[k]],
                     LAMBDA next : DedupeChoose(segments, i + 1, next))
           ELSE DedupeChoose(segments, i + 1, chosen)

\* Second loop of dedupeSegments.
RECURSIVE DedupeEmit(_, _, _, _, _)
DedupeEmit(segments, chosen, i, emitted, unique) ==
  IF i > Len(segments) THEN unique
  ELSE LET key == canonicalizeName(segments[i].color.name)
       IN  IF key \in emitted
           THEN DedupeEmit(segments, chosen, i + 1, emitted, unique)
           ELSE IF chosen[key] = i
                THEN DedupeEmit(segments, chosen, i + 1, emitted \cup {key},
                                Append(unique, segments[i]))
                ELSE DedupeEmit(segments, chosen, i + 1, emitted, unique)

\* Faulty variant of dedupeSegments: the last segment of a key is kept.
DedupeKeepsLast(segments) ==
  IF Len(segments) <= 1 THEN segments
  ELSE LET keys == { canonicalizeName(segments[i].color.name) :
                       i \in DOMAIN segments }
           lastOf == [k \in keys |->
                        CHOOSE i \in DOMAIN segments :
                          /\ canonicalizeName(segments[i].color.name) = k
                          /\ \A j \in DOMAIN segments :
                               canonicalizeName(segments[j].color.name) = k
                                 => j <= i]
       IN  DedupeEmit(segments, lastOf, 1, {}, << >>)

\* Faulty variant of dedupeSegments: the kept segment is stretched over the
\* segments dropped for its key.
DedupeAbsorbs(segments) ==
  IF Len(segments) <= 1 THEN segments
  ELSE With(With(DedupeChoose(segments, 1, << >>),
                 LAMBDA chosen : DedupeEmit(segments, chosen, 1, {}, << >>)),
            LAMBDA unique :
              SubSeq([i \in DOMAIN unique |->
                        LET same == { j \in DOMAIN segments :
                                        canonicalizeName(segments[j].color.name)
                                          = canonicalizeName(unique[i].color.name) }
                            ends == { segments[j].endHue : j \in same }
                        IN  [unique[i] EXCEPT
                               !.endHue = CHOOSE e \in ends :
                                            \A f \in ends : f <= e]],
                     1, Len(unique)))

\* Faulty variant of dedupeSegments: unique.unshift in place of unique.push.
DedupeUnshift(segments) ==
  IF Len(segments) <= 1 THEN segments
  ELSE With(With(DedupeChoose(segments, 1, << >>),
                 LAMBDA chosen : DedupeEmit(segments, chosen, 1, {}, << >>)),
            LAMBDA unique :
              SubSeq([i \in DOMAIN unique |-> unique[Len(unique) + 1 - i]],
                     1, Len(unique)))

dedupeSegments(segments) ==
  IF Len(segments) <= 1 THEN segments
  ELSE With(DedupeChoose(segments, 1, << >>),
            LAMBDA chosen : DedupeEmit(segments, chosen, 1, {}, << >>))

\* Array.prototype.sort with (left, right) => left.startHue - right.startHue
\* is stable: an entry comes after those with a smaller startHue and after
\* the earlier entries with the same startHue.
SortByStartHue(segments) ==
  IF Len(segments) <= 1 THEN segments
  ELSE LET n == Len(segments)
           Before(i, j) ==
             \/ segments[i].startHue < segments[j].startHue
             \/ segments[i].startHue = segments[j].startHue /\ i < j
           places == [j \in 1 .. n |->
                       1 + Cardinality({ i \in 1 .. n : Before(i, j) })]
       IN  With(SubSeq(places, 1, n), LAMBDA place :
             SubSeq([p \in 1 .. n |->
                       segments[CHOOSE j \in 1 .. n : place[j] = p]], 1, n))

\* The forward pass of mergeSegments.
RECURSIVE MergeForward(_, _, _)
MergeForward(ordered, index, merged) ==
  IF index > Len(ordered) THEN merged
  ELSE LET segment  == ordered[index]
           previous == Last(merged)
       IN  IF segment.color.name = previous.color.name
           THEN CHOOSE r \in
                  { MergeForward(ordered, index + 1, next) :
                      next \in { Append(Front(merged),
                                   [previous EXCEPT
                                      !.endHue = segment.endHue]) } } : TRUE
           ELSE CHOOSE r \in
                  { MergeForward(ordered, index + 1, next) :
                      next \in { Append(merged, segment) } } : TRUE

\* Faulty variant of MergeWrap: the fused segment keeps the first entry's endHue.
MergeWrapNoShift(merged) ==
  IF Len(merged) > 1 /\ merged[1].color.name = Last(merged).color.name
  THEN << [merged[1] EXCEPT !.startHue = Last(merged).startHue] >>
       \o SubSeq(merged, 2, Len(merged) - 1)
  ELSE merged

\* Faulty variant of MergeWrap: the fused segment keeps the first entry's
\* startHue.
MergeWrapKeepsStart(merged) ==
  IF Len(merged) > 1 /\ merged[1].color.name = Last(merged).color.name
  THEN << [merged[1] EXCEPT !.endHue = merged[1].endHue + FULL_CIRCLE] >>
       \o SubSeq(merged, 2, Len(merged) - 1)
  ELSE merged

\* The wrap-around step of mergeSegments.
MergeWrap(merged) ==
  IF Len(merged) > 1 /\ merged[1].color.name = Last(merged).color.name
  THEN << [merged[1] EXCEPT !.startHue = Last(merged).startHue,
                            !.endHue = merged[1].endHue + FULL_CIRCLE] >>
       \o SubSeq(merged, 2, Len(merged) - 1)
  ELSE merged

\* Faulty variant of mergeSegments: the forward pass only.
MergeNoWrap(segments) ==
  IF Len(segments) = 0 THEN << >>
  ELSE LET ordered == SortByStartHue(segments)
       IN  MergeForward(ordered, 2, << ordered[1] >>)

mergeSegments(segments) ==
  IF Len(segments) = 0 THEN << >>
  ELSE With(SortByStartHue(segments), LAMBDA ordered :
         With(MergeForward(ordered, 2, << ordered[1] >>), MergeWrap))

\* Faulty variant of BuildRaw: the filter drops hue 0.
BuildRawSkipsZero(vals, knownHues) ==
  LET sorted == SetToSortedSeq({ h \in Range(knownHues) :
                                   h > 0 /\ h < FULL_CIRCLE })
      all == [index \in DOMAIN sorted |->
                Seg(sorted[index],
                    IF index + 1 <= Len(sorted) THEN sorted[index + 1]
                    ELSE FULL_CIRCLE,
                    IF sorted[index] \in DOMAIN vals
                    THEN vals[sorted[index]] ELSE undefined)]
  IN  SelectSeq(all, LAMBDA s : s.color # undefined)

\* Faulty variant of BuildRaw: every segment runs to the end of the circle.
BuildRawOpenEnded(vals, knownHues) ==
  LET sorted == SetToSortedSeq({ h \in Range(knownHues) :
                                   h >= 0 /\ h < FULL_CIRCLE })
  IN  [index \in DOMAIN sorted |->
         Seg(sorted[index], FULL_CIRCLE, vals[sorted[index]])]

\* The loop shared by buildSegmentsFromSampler and
\* buildSegmentsFromKnownHues: vals is the sampler's completed-value map,
\* knownHues the keys handed in.
BuildRaw(vals, knownHues) ==
  With(SetToSortedSeq({ h \in Range(knownHues) :
                          h >= 0 /\ h < FULL_CIRCLE }), LAMBDA sorted :
    LET all == [index \in DOMAIN sorted |->
                  Seg(sorted[index],
                      IF index + 1 <= Len(sorted) THEN sorted[index + 1]
                      ELSE FULL_CIRCLE,
                      IF sorted[index] \in DOMAIN vals
                      THEN vals[sorted[index]] ELSE undefined)]
    IN  SelectSeq(all, LAMBDA s : s.color # undefined))

\* lib/segmentHueSpace.server.ts: build and merge, no duplicate resolution.
buildSegmentsFromSampler(vals) ==
  With(SetToSortedSeq(DOMAIN vals), LAMBDA knownHues :
    IF Len(knownHues) = 0 THEN << >>
    ELSE With(BuildRaw(vals, knownHues), mergeSegments))

\* api/segmentHueSpace.server.ts: build, merge, then dedupe.
buildSegmentsFromKnownHues(vals, knownHues) ==
  IF Len(knownHues) = 0 THEN << >>
  ELSE With(With(BuildRaw(vals, knownHues), mergeSegments), dedupeSegments)

\* JSON.stringify({ segments }) and JSON.parse: a payload is the list of
\* the segments' fields in document order.
JSONstringify(segments) ==
  [i \in DOMAIN segments |->
     << segments[i].startHue, segments[i].endHue,
        segments[i].color.name, segments[i].color.h >>]

JSONparse(payload) ==
  [i \in DOMAIN payload |->
     Seg(payload[i][1], payload[i][2],
         [name |-> payload[i][3], h |-> payload[i][4]])]

\* ------------------------------------------------------------------------
\* The oracle: the tests' createFakeSampler over a list of named ranges
\* ------------------------------------------------------------------------
Red == << "R","e","d" >>

Green == << "G","r","e","e","n" >>

Blue == << "B","l","u","e" >>

Rose == << "R","o","s","e" >>

Gray == << "G","r","a","y" >>

ScreaminApos == << "S","c","r","e","a","m","i","n","'"," ","G","r","e","e","n" >>

ScreaminPlain == << "S","c","r","e","a","m","i","n"," ","G","r","e","e","n" >>

FakeRange(s, e, n) == [start |-> s, end |-> e, name |-> n]

RangeCovers(range, normalized) ==
  IF range.start <= range.end
  THEN normalized >= range.start /\ normalized < range.end
  ELSE normalized >= range.start \/ normalized < range.end

\* createFakeSampler(fakeRanges)(hue)
sample(fakeRanges, hue) ==
  LET normalized == normalizeHue(hue)
      hits == { i \in DOMAIN fakeRanges : RangeCovers(fakeRanges[i], normalized) }
      chosen == IF hits = {} THEN Last(fakeRanges)
                ELSE fakeRanges[CHOOSE i \in hits : \A j \in hits : i <= j]
  IN  [name |-> chosen.name, h |-> normalized]

\* Two names with one sharp transition at t.
SingleTransition(t) ==
  << FakeRange(0, t, Red), FakeRange(t, FULL_CIRCLE, Blue) >>

Uniform == << FakeRange(0, FULL_CIRCLE, Gray) >>

RedGreenBlue ==
  << FakeRange(0, 90, Red), FakeRange(90, 210, Green),
     FakeRange(210, FULL_CIRCLE, Blue) >>

RoseGrayRose ==
  << FakeRange(0, 40, Rose), FakeRange(40, 300, Gray),
     FakeRange(300, FULL_CIRCLE, Rose) >>

\* A narrow band of another name between agreeing probes.
Island ==
  << FakeRange(0, 10, Red), FakeRange(10, 20, Blue),
     FakeRange(20, FULL_CIRCLE, Red) >>

\* The same name on two separated arcs.
Stripes ==
  << FakeRange(0, 100, Red), FakeRange(100, 200, Blue),
     FakeRange(200, 300, Red), FakeRange(300, FULL_CIRCLE, Blue) >>

\* Near-duplicate names on separated arcs (the dataset quirk).
NearDuplicates ==
  << FakeRange(0, 120, ScreaminApos), FakeRange(120, 170, Blue),
     FakeRange(170, 250, ScreaminPlain), FakeRange(250, FULL_CIRCLE, Red) >>

\* Near-duplicate names on adjacent arcs.
NearDuplicatesAdjacent ==
  << FakeRange(0, 100, ScreaminPlain),
     FakeRange(100, FULL_CIRCLE, ScreaminApos) >>

Scenarios ==
  { Uniform, RedGreenBlue, RoseGrayRose, Island, Stripes,
    NearDuplicates, NearDuplicatesAdjacent }
  \cup { SingleTransition(t) : t \in {1, 2, 90, 179, 180, 181, 359} }

Saturations == {0, 60}

Lightnesses == {0, 50, 100}

\* ------------------------------------------------------------------------
\* State
\* ------------------------------------------------------------------------
VARIABLES
  fakeRanges,     \* the oracle's named ranges (the injected sample function)
  saturation,     \* options.saturation
  lightness,      \* options.lightness
  run,            \* index into RunKinds of the entry point being executed
  pc,             \* position of the run's async function
  promises,       \* AdaptiveSampler.promises: key -> state of the promise
  values,         \* AdaptiveSampler.values: key -> ColorDescriptor
  calls,          \* hues handed to the fetcher, in call order
  queue,          \* createSegments' FIFO work list (api)
  stack,          \* streamRange's LIFO work list (lib)
  frames,         \* activation records of the recursive subdivideRange (lib)
  cur,            \* the range being processed and its midpoint
  fresh,          \* sampleHue went through sampler.get (emits on resume)
  lastSignature,  \* createSegments.lastSignature
  lastSegments,   \* createSegments.lastSegments
  lastPayload,    \* last payload written to the stream
  chunks,         \* everything enqueued on the ReadableStream
  streamState,    \* "none", "open", "closed", "errored" or "cancelled"
  result,         \* value the collect-all promise resolved with
  history,        \* summaries of the runs already finished
  callers,        \* sampler harness: the pending get calls
  rejections,     \* sampler harness: oracle failures so far
  fnIn,           \* pure-function harness: its argument
  fnOut,          \* pure-function harness: its value
  memo,           \* the module-level memo: key -> index of its computation
  attempts,       \* the computations started by collect-all calls
  clients,        \* the callers of the collect-all entry point
  rows,           \* cache job: the colors table for the pair, hue -> row
  requests,       \* cache job: hues fetched over the network, in order
  cacheMisses,    \* database mode: hues looked up that had no row
  scan,           \* exhaustive cache job: the next hue of its loop
  tasks,          \* exhaustive cache job: the tasks array
  initialSegments, \* useStreamedSegments: the initialSegments argument
  navigation,     \* useStreamedSegments: the navigation argument
  segmentsState,  \* useStreamedSegments: the segments state
  hasStreamedPartial, \* useStreamedSegments: the hasStreamedPartial state
  stream,         \* useStreamedSegments: the response read by the effect
  retryLimit,     \* cache job: COLOR_CACHE_RETRY_LIMIT as parsed
  attempt,        \* fetchColor: its attempt parameter
  responses,      \* fetchColor: what fetch answered, one entry per attempt
  fetchState,     \* fetchColor: where the call stands
  concurrency,    \* cache job: COLOR_CACHE_CONCURRENCY as parsed and clamped
  pairs,          \* main: the pairs array
  nextIndex,      \* main: nextIndex
  workers,        \* main: the workers, each with the pairs it has taken
  processedPairs  \* main: processedPairs

samplerVars == << promises, values, calls >>

workVars == << queue, stack, frames, cur, fresh >>

emitVars == << lastSignature, lastSegments, lastPayload, chunks, streamState >>

inputVars == << fakeRanges, saturation, lightness >>

memoVars == << memo, attempts, clients >>

harnessVars == << callers, rejections, fnIn, fnOut, memo, attempts, clients >>

jobVars == << rows, requests, cacheMisses, scan, tasks >>

hookVars == << initialSegments, navigation, segmentsState, hasStreamedPartial, stream >>

fetchVars == << retryLimit, attempt, responses, fetchState >>

poolVars == << concurrency, pairs, nextIndex, workers, processedPairs >>

buildVars == << fetchVars, poolVars >>

vars == << fakeRanges, saturation, lightness, run, pc, promises, values,
           calls, queue, stack, frames, cur, fresh, lastSignature,
           lastSegments, lastPayload, chunks, streamState, result, history,
           callers, rejections, fnIn, fnOut, memo, attempts, clients,
           rows, requests, cacheMisses, scan, tasks,
           initialSegments, navigation, segmentsState, hasStreamedPartial, stream,
           retryLimit, attempt, responses, fetchState,
           concurrency, pairs, nextIndex, workers, processedPairs >>

\* The entry points, run one after the other on the same oracle, each with
\* its own AdaptiveSampler.
RunKinds == << "apiStream", "apiCollect", "libStream", "libCollect" >>

kind == RunKinds[run]

\* lastPayload before the first write.
null == << << >> >>

NoRange == [startHue |-> 0, endHue |-> 0, midpoint |-> 0]

WorkItem(s, e) == [startHue |-> s, endHue |-> e]

\* Faulty variant of Degenerate: lightness is not looked at.
DegenerateSaturationOnly == saturation = 0

Degenerate == saturation = 0 \/ lightness = 0 \/ lightness = 100

InitialStreamState(k) == IF k = "libCollect" THEN "none" ELSE "open"

FreshRun(r) ==
  /\ run = r
  /\ pc = "start"
  /\ promises = << >>
  /\ values = << >>
  /\ calls = << >>
  /\ queue = << >>
  /\ stack = << >>
  /\ frames = << >>
  /\ cur = NoRange
  /\ fresh = FALSE
  /\ lastSignature = << >>
  /\ lastSegments = << >>
  /\ lastPayload = null
  /\ chunks = << >>
  /\ streamState = InitialStreamState(RunKinds[r])
  /\ result = << >>

\* No cache job has run and the database is not in use.
JobIdle ==
  /\ rows = << >>
  /\ requests = << >>
  /\ cacheMisses = << >>
  /\ scan = 0
  /\ tasks = << >>

\* fetchColor has not been called.
FetchIdle ==
  /\ retryLimit = 4
  /\ attempt = 0
  /\ responses = << >>
  /\ fetchState = "idle"

\* The worker pool of the cache job has not been set up.
PoolIdle ==
  /\ concurrency = 4
  /\ pairs = << >>
  /\ nextIndex = 0
  /\ workers = << >>
  /\ processedPairs = 0

BuildIdle == FetchIdle /\ PoolIdle

\* No component uses the hook.
HookIdle ==
  /\ initialSegments = << >>
  /\ navigation = [state |-> "idle", location |-> ""]
  /\ segmentsState = << >>
  /\ hasStreamedPartial = FALSE
  /\ stream = << >>

\* No collect-all call has been made through the memo.
MemoIdle ==
  /\ memo = << >>
  /\ attempts = << >>
  /\ clients = << >>

\* The harness variables while a whole entry point is executed.
HarnessIdle ==
  /\ callers = << >>
  /\ rejections = 0
  /\ fnIn = << >>
  /\ fnOut = << >>
  /\ MemoIdle

\* The state in which entry point r is called, as a step.
BeginRun(r) ==
  /\ run' = r
  /\ pc' = "start"
  /\ promises' = << >>
  /\ values' = << >>
  /\ calls' = << >>
  /\ queue' = << >>
  /\ stack' = << >>
  /\ frames' = << >>
  /\ cur' = NoRange
  /\ fresh' = FALSE
  /\ lastSignature' = << >>
  /\ lastSegments' = << >>
  /\ lastPayload' = null
  /\ chunks' = << >>
  /\ streamState' = InitialStreamState(RunKinds[r])
  /\ result' = << >>

Init ==
  /\ fakeRanges \in Scenarios
  /\ saturation \in Saturations
  /\ lightness \in Lightnesses
  /\ FreshRun(1)
  /\ history = << >>
  /\ HarnessIdle
  /\ JobIdle
  /\ HookIdle
  /\ BuildIdle

\* ------------------------------------------------------------------------
\* AdaptiveSampler
\* ------------------------------------------------------------------------
Fulfilled(hue) ==
  /\ keyFor(hue) \in DOMAIN promises
  /\ promises[keyFor(hue)] = "fulfilled"

\* getCached(hue) is defined
Cached(hue) == keyFor(hue) \in DOMAIN values

getKnownHues(vals) == SetToSortedSeq(DOMAIN vals)

SetKey(f, k, v) == [x \in DOMAIN f \cup {k} |-> IF x = k THEN v ELSE f[x]]

RemoveKey(f, k) == [x \in DOMAIN f \ {k} |-> f[x]]

\* The synchronous part of AdaptiveSampler.get on sampler state
\* st = [promises, calls]: an existing promise is returned, otherwise the
\* fetcher is called and its promise is stored under the key at once.
\* Faulty variant of SamplerGet: no look-up of an existing promise.
GetAlwaysFetches(st, hue) ==
  [promises |-> SetKey(st.promises, keyFor(hue), "pending"),
   calls    |-> Append(st.calls, normalizeHue(hue))]

\* Faulty variant of SamplerGet: the hue is neither normalized for the key
\* nor for the fetcher.
GetWithoutNormalize(st, hue) ==
  IF hue \in DOMAIN st.promises THEN st
  ELSE [promises |-> SetKey(st.promises, hue, "pending"),
        calls    |-> Append(st.calls, hue)]

SamplerGet(st, hue) ==
  IF keyFor(hue) \in DOMAIN st.promises THEN st
  ELSE [promises |-> SetKey(st.promises, keyFor(hue), "pending"),
        calls    |-> Append(st.calls, normalizeHue(hue))]

SamplerState == [promises |-> promises, calls |-> calls]

\* The oracle answers a pending request: the .then callback stores the value.
OracleResolve ==
  \E key \in DOMAIN promises :
    /\ promises[key] = "pending"
    /\ promises' = [promises EXCEPT ![key] = "fulfilled"]
    /\ values' = SetKey(values, key, sample(fakeRanges, key))
    /\ UNCHANGED << inputVars, buildVars, jobVars, hookVars, harnessVars, run, pc, calls, workVars, emitVars, result,
                    history >>

\* Faulty variant of ControllerError: the stream is closed instead.
ControllerErrorCloses(s) == IF s = "open" THEN "closed" ELSE s

\* controller.error(error) in the catch of the run: a stream that is still
\* open goes into its error state, any other state is left as it is.
ControllerError(s) == IF s = "open" THEN "errored" ELSE s

\* Faulty variant of OracleReject: the failed hue is requested again and the
\* run goes on.
OracleRejectRetries ==
  \E key \in DOMAIN promises :
    /\ promises[key] = "pending"
    /\ pc \notin {"done", "failed", "end", "torn"}
    /\ calls' = Append(calls, key)
    /\ UNCHANGED << inputVars, buildVars, jobVars, hookVars, harnessVars, run, pc, promises, values, workVars,
                    emitVars, result, history >>

\* The oracle fails a pending request of a running entry point: get's catch
\* deletes the in-flight entry and rethrows, which aborts the run; a stream
\* is put into its error state.
OracleReject ==
  \E key \in DOMAIN promises :
    /\ promises[key] = "pending"
    /\ pc \notin {"done", "failed", "end", "torn"}
    /\ promises' = RemoveKey(promises, key)
    /\ pc' = "failed"
    /\ streamState' = ControllerError(streamState)
    /\ UNCHANGED << inputVars, buildVars, jobVars, hookVars, harnessVars, run, values, calls, workVars, lastSignature,
                    lastSegments, lastPayload, chunks, result, history >>

\* ------------------------------------------------------------------------
\* api/segmentHueSpace.server.ts: createSegments driven by
\* streamSegmentHueSpace (and by collectStreamedSegments through it)
\* ------------------------------------------------------------------------
IsApi == kind \in {"apiStream", "apiCollect"}

\* The onProgress callback of streamSegmentHueSpace, on em = [lastPayload,
\* chunks].
OnProgress(em, segments) ==
  IF Len(segments) = 0 THEN em
  ELSE With(JSONstringify(segments), LAMBDA payload :
         IF payload = em.lastPayload THEN em
         ELSE [lastPayload |-> payload,
               chunks |-> Append(em.chunks,
                                 [event |-> "segments", data |-> payload])])

\* createSegments.emit
Emit(em, segments) ==
  IF Len(segments) > 0 THEN OnProgress(em, segments) ELSE em

\* Faulty variant of RefreshSegments: the list is built from the hues of the
\* previous signature.
RefreshSegmentsStale(vals, sig, segs, em) ==
  With(getKnownHues(vals), LAMBDA knownHues :
    LET signature == knownHues
    IN  IF signature = sig
        THEN [lastSignature |-> sig, lastSegments |-> segs, em |-> em]
        ELSE With(buildSegmentsFromKnownHues(vals, sig), LAMBDA built :
               [lastSignature |-> signature, lastSegments |-> built,
                em |-> Emit(em, built)]))

\* createSegments.refreshSegments on the closure state.
RefreshSegments(vals, sig, segs, em) ==
  With(getKnownHues(vals), LAMBDA knownHues :
    LET signature == knownHues
    IN  IF signature = sig
        THEN [lastSignature |-> sig, lastSegments |-> segs, em |-> em]
        ELSE With(buildSegmentsFromKnownHues(vals, knownHues), LAMBDA built :
               [lastSignature |-> signature, lastSegments |-> built,
                em |-> Emit(em, built)]))

EmitState == [lastPayload |-> lastPayload, chunks |-> chunks]

\* ReadableStreamDefaultControllerCanCloseOrEnqueue: enqueue and close
\* throw a TypeError on a stream that is no longer open.
CanCloseOrEnqueue == streamState = "open"

\* The enqueue that produced em is refused: the exception leaves the run
\* through the catch, whose controller.error is then without effect.
EnqueueThrows(em) == ~CanCloseOrEnqueue /\ em.chunks # chunks

\* What is on the stream after the writes that produced em.
Written(em) == IF CanCloseOrEnqueue THEN em.chunks ELSE chunks

\* controller.close() at the end of a run.
ControllerClose(s) == IF s = "open" THEN "closed" ELSE s

\* consumeStream: the segments of the last line read.
ConsumeStream(ch) ==
  LET lines == SelectSeq(ch, LAMBDA c : c.event = "segments")
  IN  IF Len(lines) = 0 THEN << >> ELSE JSONparse(Last(lines).data)

\* What the caller of collectStreamedSegments receives once the stream is
\* closed.
ApiResult(ch) == IF kind = "apiCollect" THEN ConsumeStream(ch) ELSE << >>

ApiStart ==
  /\ IsApi /\ pc = "start"
  /\ LET st == SamplerGet(SamplerState, 0)
     IN  /\ promises' = st.promises
         /\ calls' = st.calls
  /\ pc' = IF Degenerate THEN "gray" ELSE "anchor"
  /\ UNCHANGED << inputVars, buildVars, jobVars, hookVars, harnessVars, run, values, workVars, emitVars, result, history >>

ApiGrayscale ==
  /\ IsApi /\ pc = "gray" /\ Fulfilled(0)
  /\ LET grayscale == << Seg(0, FULL_CIRCLE, values[0]) >>
         em == Emit(EmitState, grayscale)
     IN  /\ lastPayload' = em.lastPayload
         /\ chunks' = Written(em)
         /\ result' = ApiResult(Written(em))
  /\ streamState' = ControllerClose(streamState)
  /\ pc' = IF CanCloseOrEnqueue THEN "done" ELSE "torn"
  /\ UNCHANGED << inputVars, buildVars, jobVars, hookVars, harnessVars, run, samplerVars, workVars, lastSignature,
                  lastSegments, history >>

\* Faulty variant of ApiAnchor: sampler.get(0) is not awaited.
ApiAnchorNotAwaited ==
  /\ IsApi /\ pc = "anchor"
  /\ queue' = << WorkItem(0, FULL_CIRCLE) >>
  /\ LET r == RefreshSegments(values, lastSignature, lastSegments, EmitState)
     IN  /\ lastSignature' = r.lastSignature
         /\ lastSegments' = r.lastSegments
         /\ lastPayload' = r.em.lastPayload
         /\ chunks' = Written(r.em)
         /\ pc' = IF EnqueueThrows(r.em) THEN "torn" ELSE "loop"
  /\ UNCHANGED << inputVars, buildVars, jobVars, hookVars, harnessVars, run, samplerVars, stack, frames, cur, fresh,
                  streamState, result, history >>

ApiAnchor ==
  /\ IsApi /\ pc = "anchor" /\ Fulfilled(0)
  /\ queue' = << WorkItem(0, FULL_CIRCLE) >>
  /\ LET r == RefreshSegments(values, lastSignature, lastSegments, EmitState)
     IN  /\ lastSignature' = r.lastSignature
         /\ lastSegments' = r.lastSegments
         /\ lastPayload' = r.em.lastPayload
         /\ chunks' = Written(r.em)
         /\ pc' = IF EnqueueThrows(r.em) THEN "torn" ELSE "loop"
  /\ UNCHANGED << inputVars, buildVars, jobVars, hookVars, harnessVars, run, samplerVars, stack, frames, cur, fresh,
                  streamState, result, history >>

\* The loop condition fails: the final refreshSegments, then the stream is
\* closed.
ApiFinish ==
  /\ IsApi /\ pc = "loop" /\ queue = << >>
  /\ LET r == RefreshSegments(values, lastSignature, lastSegments, EmitState)
     IN  /\ lastSignature' = r.lastSignature
         /\ lastSegments' = r.lastSegments
         /\ lastPayload' = r.em.lastPayload
         /\ chunks' = Written(r.em)
         /\ result' = ApiResult(Written(r.em))
  /\ streamState' = ControllerClose(streamState)
  /\ pc' = IF CanCloseOrEnqueue THEN "done" ELSE "torn"
  /\ UNCHANGED << inputVars, buildVars, jobVars, hookVars, harnessVars, run, samplerVars, workVars, history >>

\* queue.shift() of a range that is too narrow to split.
ApiSkip ==
  /\ IsApi /\ pc = "loop" /\ queue # << >>
  /\ Head(queue).endHue - Head(queue).startHue <= MIN_SPAN
  /\ queue' = Tail(queue)
  /\ UNCHANGED << inputVars, buildVars, jobVars, hookVars, harnessVars, run, pc, samplerVars, stack, frames, cur, fresh,
                  emitVars, result, history >>

\* queue.shift() and Promise.all([get(startHue), get(endHue)]): both
\* requests are issued before either is awaited.
ApiTake ==
  /\ IsApi /\ pc = "loop" /\ queue # << >>
  /\ Head(queue).endHue - Head(queue).startHue > MIN_SPAN
  /\ queue' = Tail(queue)
  /\ cur' = [startHue |-> Head(queue).startHue, endHue |-> Head(queue).endHue,
             midpoint |-> Midpoint(Head(queue).startHue, Head(queue).endHue)]
  /\ LET st == SamplerGet(SamplerGet(SamplerState, Head(queue).startHue),
                          Head(queue).endHue)
     IN  /\ promises' = st.promises
         /\ calls' = st.calls
  /\ pc' = "pair"
  /\ UNCHANGED << inputVars, buildVars, jobVars, hookVars, harnessVars, run, values, stack, frames, fresh, emitVars,
                  result, history >>

\* Both promises of the pair are fulfilled: the midpoint is requested.
ApiPair ==
  /\ IsApi /\ pc = "pair"
  /\ Fulfilled(cur.startHue) /\ Fulfilled(cur.endHue)
  /\ LET st == SamplerGet(SamplerState, cur.midpoint % FULL_CIRCLE)
     IN  /\ promises' = st.promises
         /\ calls' = st.calls
  /\ pc' = "mid"
  /\ UNCHANGED << inputVars, buildVars, jobVars, hookVars, harnessVars, run, values, workVars, emitVars, result, history >>

\* Faulty variant of NamesMatch: the midpoint is not compared.
NamesMatchEndsOnly(startColor, middleColor, endColor) ==
  startColor.name = endColor.name

\* Faulty variant of NamesMatch: whole descriptors are compared, not names.
NamesMatchWholeColor(startColor, middleColor, endColor) ==
  startColor = middleColor /\ middleColor = endColor

NamesMatch(startColor, middleColor, endColor) ==
  startColor.name = middleColor.name /\ middleColor.name = endColor.name

CurNamesMatch ==
  NamesMatch(values[keyFor(cur.startHue)],
             values[keyFor(cur.midpoint % FULL_CIRCLE)],
             values[keyFor(cur.endHue)])

\* Faulty variant of ApiMid: the right half starts one past the midpoint.
ApiMidLeavesGap ==
  /\ IsApi /\ pc = "mid"
  /\ Fulfilled(cur.midpoint % FULL_CIRCLE)
  /\ LET r == RefreshSegments(values, lastSignature, lastSegments, EmitState)
     IN  /\ lastSignature' = r.lastSignature
         /\ lastSegments' = r.lastSegments
         /\ lastPayload' = r.em.lastPayload
         /\ chunks' = Written(r.em)
         /\ queue' = IF CurNamesMatch \/ EnqueueThrows(r.em) THEN queue
                     ELSE queue \o << WorkItem(cur.startHue, cur.midpoint),
                                      WorkItem(cur.midpoint + 1, cur.endHue) >>
         /\ pc' = IF EnqueueThrows(r.em) THEN "torn" ELSE "loop"
  /\ UNCHANGED << inputVars, buildVars, jobVars, hookVars, harnessVars, run, samplerVars, stack, frames, cur, fresh,
                  streamState, result, history >>

\* Faulty variant of ApiMid: only the left half is pushed.
ApiMidLeftHalfOnly ==
  /\ IsApi /\ pc = "mid"
  /\ Fulfilled(cur.midpoint % FULL_CIRCLE)
  /\ LET r == RefreshSegments(values, lastSignature, lastSegments, EmitState)
     IN  /\ lastSignature' = r.lastSignature
         /\ lastSegments' = r.lastSegments
         /\ lastPayload' = r.em.lastPayload
         /\ chunks' = Written(r.em)
         /\ queue' = IF CurNamesMatch \/ EnqueueThrows(r.em) THEN queue
                     ELSE queue \o << WorkItem(cur.startHue, cur.midpoint) >>
         /\ pc' = IF EnqueueThrows(r.em) THEN "torn" ELSE "loop"
  /\ UNCHANGED << inputVars, buildVars, jobVars, hookVars, harnessVars, run, samplerVars, stack, frames, cur, fresh,
                  streamState, result, history >>

\* The midpoint is fulfilled: refresh, then either drop the range or push
\* its two halves.
ApiMid ==
  /\ IsApi /\ pc = "mid"
  /\ Fulfilled(cur.midpoint % FULL_CIRCLE)
  /\ LET r == RefreshSegments(values, lastSignature, lastSegments, EmitState)
     IN  /\ lastSignature' = r.lastSignature
         /\ lastSegments' = r.lastSegments
         /\ lastPayload' = r.em.lastPayload
         /\ chunks' = Written(r.em)
         /\ queue' = IF CurNamesMatch \/ EnqueueThrows(r.em) THEN queue
                     ELSE queue \o << WorkItem(cur.startHue, cur.midpoint),
                                      WorkItem(cur.midpoint, cur.endHue) >>
         /\ pc' = IF EnqueueThrows(r.em) THEN "torn" ELSE "loop"
  /\ UNCHANGED << inputVars, buildVars, jobVars, hookVars, harnessVars, run, samplerVars, stack, frames, cur, fresh,
                  streamState, result, history >>

\* ------------------------------------------------------------------------
\* lib/segmentHueSpace.server.ts: streamRange driven by
\* segmentHueSpaceStream (server-sent events, LIFO stack)
\* ------------------------------------------------------------------------
IsLibStream == kind = "libStream"

\* Faulty variant of EmitSegments: the payload is written even when it
\* equals the last one.
EmitSegmentsAlways(em, vals) ==
  LET payload == JSONstringify(buildSegmentsFromSampler(vals))
  IN  [lastPayload |-> payload,
       chunks |-> Append(em.chunks,
                         [event |-> "segments", data |-> payload])]

\* Faulty variant of EmitSegments: only the first snapshot is written.
EmitSegmentsOnlyFirst(em, vals) ==
  LET payload == JSONstringify(buildSegmentsFromSampler(vals))
  IN  IF em.lastPayload # null THEN em
      ELSE [lastPayload |-> payload,
            chunks |-> Append(em.chunks,
                              [event |-> "segments", data |-> payload])]

\* emitSegments on em = [lastPayload, chunks]
EmitSegments(em, vals) ==
  With(With(buildSegmentsFromSampler(vals), JSONstringify), LAMBDA payload :
    IF payload = em.lastPayload THEN em
    ELSE [lastPayload |-> payload,
          chunks |-> Append(em.chunks,
                            [event |-> "segments", data |-> payload])])

\* Faulty variant of FinishEvents: the stream is closed without the complete
\* event.
FinishEventsOmitted(ch) == ch

\* streamRange.finish: the complete event, then controller.close().
FinishEvents(ch) == Append(ch, [event |-> "complete", data |-> << >>])

\* sampleHue up to its await, on st = [promises, calls]: a cached hue is
\* answered at once, any other goes through sampler.get.
SampleHue(st, hue) ==
  IF keyFor(normalizeHue(hue)) \in DOMAIN values THEN st
  ELSE SamplerGet(st, normalizeHue(hue))

IsFresh(hue) == keyFor(normalizeHue(hue)) \notin DOMAIN values

\* sampleHue after its await: a hue that was fetched emits.
AfterSampleHue == IF fresh THEN EmitSegments(EmitState, values) ELSE EmitState

LsStart ==
  /\ IsLibStream /\ pc = "start"
  /\ LET st == SampleHue(SamplerState, 0)
     IN  /\ promises' = st.promises
         /\ calls' = st.calls
  /\ fresh' = IsFresh(0)
  /\ pc' = IF Degenerate THEN "gray" ELSE "anchor"
  /\ UNCHANGED << inputVars, buildVars, jobVars, hookVars, harnessVars, run, values, queue, stack, frames, cur, emitVars,
                  result, history >>

LsGrayscale ==
  /\ IsLibStream /\ pc = "gray" /\ Cached(0)
  /\ LET em == EmitSegments(AfterSampleHue, values)
     IN  /\ lastPayload' = em.lastPayload
         /\ chunks' = Written([em EXCEPT !.chunks = FinishEvents(@)])
  /\ streamState' = ControllerClose(streamState)
  /\ pc' = IF CanCloseOrEnqueue THEN "done" ELSE "torn"
  /\ UNCHANGED << inputVars, buildVars, jobVars, hookVars, harnessVars, run, samplerVars, workVars, lastSignature,
                  lastSegments, result, history >>

LsAnchor ==
  /\ IsLibStream /\ pc = "anchor" /\ Cached(0)
  /\ LET em == AfterSampleHue
     IN  /\ lastPayload' = em.lastPayload
         /\ chunks' = Written(em)
         /\ stack' = IF EnqueueThrows(em) THEN stack
                     ELSE << WorkItem(0, FULL_CIRCLE) >>
         /\ pc' = IF EnqueueThrows(em) THEN "torn" ELSE "loop"
  /\ UNCHANGED << inputVars, buildVars, jobVars, hookVars, harnessVars, run, samplerVars, queue, frames, cur, fresh,
                  lastSignature, lastSegments, streamState, result, history >>

LsFinish ==
  /\ IsLibStream /\ pc = "loop" /\ stack = << >>
  /\ LET em == EmitSegments(EmitState, values)
     IN  /\ lastPayload' = em.lastPayload
         /\ chunks' = Written([em EXCEPT !.chunks = FinishEvents(@)])
  /\ streamState' = ControllerClose(streamState)
  /\ pc' = IF CanCloseOrEnqueue THEN "done" ELSE "torn"
  /\ UNCHANGED << inputVars, buildVars, jobVars, hookVars, harnessVars, run, samplerVars, workVars, lastSignature,
                  lastSegments, result, history >>

LsSkip ==
  /\ IsLibStream /\ pc = "loop" /\ stack # << >>
  /\ Last(stack).endHue - Last(stack).startHue <= MIN_SPAN
  /\ stack' = Front(stack)
  /\ UNCHANGED << inputVars, buildVars, jobVars, hookVars, harnessVars, run, pc, samplerVars, queue, frames, cur, fresh,
                  emitVars, result, history >>

\* stack.pop() and sampleHue(startHue)
LsTake ==
  /\ IsLibStream /\ pc = "loop" /\ stack # << >>
  /\ Last(stack).endHue - Last(stack).startHue > MIN_SPAN
  /\ stack' = Front(stack)
  /\ cur' = [startHue |-> Last(stack).startHue, endHue |-> Last(stack).endHue,
             midpoint |-> Midpoint(Last(stack).startHue, Last(stack).endHue)]
  /\ LET st == SampleHue(SamplerState, Last(stack).startHue)
     IN  /\ promises' = st.promises
         /\ calls' = st.calls
  /\ fresh' = IsFresh(Last(stack).startHue)
  /\ pc' = "sStart"
  /\ UNCHANGED << inputVars, buildVars, jobVars, hookVars, harnessVars, run, values, queue, frames, emitVars, result,
                  history >>

\* startColor is available: sampleHue(endHue)
LsAfterStart ==
  /\ IsLibStream /\ pc = "sStart" /\ Cached(cur.startHue)
  /\ LET em == AfterSampleHue
         st == IF EnqueueThrows(em) THEN SamplerState
               ELSE SampleHue(SamplerState, cur.endHue)
     IN  /\ lastPayload' = em.lastPayload
         /\ chunks' = Written(em)
         /\ promises' = st.promises
         /\ calls' = st.calls
         /\ fresh' = IF EnqueueThrows(em) THEN fresh ELSE IsFresh(cur.endHue)
         /\ pc' = IF EnqueueThrows(em) THEN "torn" ELSE "sEnd"
  /\ UNCHANGED << inputVars, buildVars, jobVars, hookVars, harnessVars, run, values, queue, stack, frames, cur,
                  lastSignature, lastSegments, streamState, result, history >>

\* endColor is available: sampleHue(midpoint % 360)
LsAfterEnd ==
  /\ IsLibStream /\ pc = "sEnd" /\ Cached(cur.endHue)
  /\ LET em == AfterSampleHue
         st == IF EnqueueThrows(em) THEN SamplerState
               ELSE SampleHue(SamplerState, cur.midpoint % FULL_CIRCLE)
     IN  /\ lastPayload' = em.lastPayload
         /\ chunks' = Written(em)
         /\ promises' = st.promises
         /\ calls' = st.calls
         /\ fresh' = IF EnqueueThrows(em) THEN fresh
                     ELSE IsFresh(cur.midpoint % FULL_CIRCLE)
         /\ pc' = IF EnqueueThrows(em) THEN "torn" ELSE "sMid"
  /\ UNCHANGED << inputVars, buildVars, jobVars, hookVars, harnessVars, run, values, queue, stack, frames, cur,
                  lastSignature, lastSegments, streamState, result, history >>

\* middleColor is available: compare the three names.
\* Faulty variant of LsAfterMid: only the right half is pushed.
LsAfterMidRightHalfOnly ==
  /\ IsLibStream /\ pc = "sMid" /\ Cached(cur.midpoint % FULL_CIRCLE)
  /\ LET em == AfterSampleHue
     IN  /\ lastPayload' = em.lastPayload
         /\ chunks' = Written(em)
         /\ stack' = IF CurNamesMatch \/ EnqueueThrows(em) THEN stack
                     ELSE stack \o << WorkItem(cur.midpoint, cur.endHue) >>
         /\ fresh' = IF EnqueueThrows(em) THEN fresh ELSE FALSE
         /\ pc' = IF EnqueueThrows(em) THEN "torn" ELSE "loop"
  /\ UNCHANGED << inputVars, buildVars, jobVars, hookVars, harnessVars, run, samplerVars, queue, frames, cur,
                  lastSignature, lastSegments, streamState, result, history >>

LsAfterMid ==
  /\ IsLibStream /\ pc = "sMid" /\ Cached(cur.midpoint % FULL_CIRCLE)
  /\ LET em == AfterSampleHue
     IN  /\ lastPayload' = em.lastPayload
         /\ chunks' = Written(em)
         /\ stack' = IF CurNamesMatch \/ EnqueueThrows(em) THEN stack
                     ELSE stack \o << WorkItem(cur.startHue, cur.midpoint),
                                      WorkItem(cur.midpoint, cur.endHue) >>
         /\ fresh' = IF EnqueueThrows(em) THEN fresh ELSE FALSE
         /\ pc' = IF EnqueueThrows(em) THEN "torn" ELSE "loop"
  /\ UNCHANGED << inputVars, buildVars, jobVars, hookVars, harnessVars, run, samplerVars, queue, frames, cur,
                  lastSignature, lastSegments, streamState, result, history >>

\* ------------------------------------------------------------------------
\* lib/segmentHueSpace.server.ts: segmentHueSpace with an injected sample,
\* createSegments and the recursive subdivideRange
\* ------------------------------------------------------------------------
IsLibCollect == kind = "libCollect"

Frame(s, e, stage) == [startHue |-> s, endHue |-> e, stage |-> stage]

Top == Last(frames)

TopMid == Midpoint(Top.startHue, Top.endHue)

SetStage(stage) == Append(Front(frames), [Top EXCEPT !.stage = stage])

LcStart ==
  /\ IsLibCollect /\ pc = "start"
  /\ LET st == SamplerGet(SamplerState, 0)
     IN  /\ promises' = st.promises
         /\ calls' = st.calls
  /\ pc' = IF Degenerate THEN "gray" ELSE "anchor"
  /\ UNCHANGED << inputVars, buildVars, jobVars, hookVars, harnessVars, run, values, workVars, emitVars, result, history >>

LcGrayscale ==
  /\ IsLibCollect /\ pc = "gray" /\ Fulfilled(0)
  /\ result' = buildSegmentsFromSampler(values)
  /\ pc' = "done"
  /\ UNCHANGED << inputVars, buildVars, jobVars, hookVars, harnessVars, run, samplerVars, workVars, emitVars, history >>

\* The anchor sample is in: subdivideRange({0, 360}) is called.
LcAnchor ==
  /\ IsLibCollect /\ pc = "anchor" /\ Fulfilled(0)
  /\ frames' = << Frame(0, FULL_CIRCLE, "enter") >>
  /\ pc' = "recurse"
  /\ UNCHANGED << inputVars, buildVars, jobVars, hookVars, harnessVars, run, samplerVars, queue, stack, cur, fresh,
                  emitVars, result, history >>

\* span <= MIN_SPAN: the call returns at once.
LcBase ==
  /\ IsLibCollect /\ pc = "recurse" /\ frames # << >>
  /\ Top.stage = "enter"
  /\ Top.endHue - Top.startHue <= MIN_SPAN
  /\ frames' = Front(frames)
  /\ UNCHANGED << inputVars, buildVars, jobVars, hookVars, harnessVars, run, pc, samplerVars, queue, stack, cur, fresh,
                  emitVars, result, history >>

LcEnter ==
  /\ IsLibCollect /\ pc = "recurse" /\ frames # << >>
  /\ Top.stage = "enter"
  /\ Top.endHue - Top.startHue > MIN_SPAN
  /\ LET st == SamplerGet(SamplerState, Top.startHue)
     IN  /\ promises' = st.promises
         /\ calls' = st.calls
  /\ frames' = SetStage("start")
  /\ UNCHANGED << inputVars, buildVars, jobVars, hookVars, harnessVars, run, pc, values, queue, stack, cur, fresh,
                  emitVars, result, history >>

LcAfterStart ==
  /\ IsLibCollect /\ pc = "recurse" /\ frames # << >>
  /\ Top.stage = "start" /\ Fulfilled(Top.startHue)
  /\ LET st == SamplerGet(SamplerState, Top.endHue)
     IN  /\ promises' = st.promises
         /\ calls' = st.calls
  /\ frames' = SetStage("end")
  /\ UNCHANGED << inputVars, buildVars, jobVars, hookVars, harnessVars, run, pc, values, queue, stack, cur, fresh,
                  emitVars, result, history >>

LcAfterEnd ==
  /\ IsLibCollect /\ pc = "recurse" /\ frames # << >>
  /\ Top.stage = "end" /\ Fulfilled(Top.endHue)
  /\ LET st == SamplerGet(SamplerState, TopMid % FULL_CIRCLE)
     IN  /\ promises' = st.promises
         /\ calls' = st.calls
  /\ frames' = SetStage("mid")
  /\ UNCHANGED << inputVars, buildVars, jobVars, hookVars, harnessVars, run, pc, values, queue, stack, cur, fresh,
                  emitVars, result, history >>

\* The three names are compared: return, or recurse into the left half.
LcAfterMid ==
  /\ IsLibCollect /\ pc = "recurse" /\ frames # << >>
  /\ Top.stage = "mid" /\ Fulfilled(TopMid % FULL_CIRCLE)
  /\ frames' = IF NamesMatch(values[keyFor(Top.startHue)],
                             values[keyFor(TopMid % FULL_CIRCLE)],
                             values[keyFor(Top.endHue)])
               THEN Front(frames)
               ELSE Append(SetStage("left"),
                           Frame(Top.startHue, TopMid, "enter"))
  /\ UNCHANGED << inputVars, buildVars, jobVars, hookVars, harnessVars, run, pc, samplerVars, queue, stack, cur, fresh,
                  emitVars, result, history >>

\* The left half has returned: recurse into the right half.
LcAfterLeft ==
  /\ IsLibCollect /\ pc = "recurse" /\ frames # << >>
  /\ Top.stage = "left"
  /\ frames' = Append(SetStage("right"), Frame(TopMid, Top.endHue, "enter"))
  /\ UNCHANGED << inputVars, buildVars, jobVars, hookVars, harnessVars, run, pc, samplerVars, queue, stack, cur, fresh,
                  emitVars, result, history >>

\* The right half has returned: the call returns.
LcAfterRight ==
  /\ IsLibCollect /\ pc = "recurse" /\ frames # << >>
  /\ Top.stage = "right"
  /\ frames' = Front(frames)
  /\ UNCHANGED << inputVars, buildVars, jobVars, hookVars, harnessVars, run, pc, samplerVars, queue, stack, cur, fresh,
                  emitVars, result, history >>

\* subdivideRange({0, 360}) has returned.
LcFinish ==
  /\ IsLibCollect /\ pc = "recurse" /\ frames = << >>
  /\ result' = buildSegmentsFromSampler(values)
  /\ pc' = "done"
  /\ UNCHANGED << inputVars, buildVars, jobVars, hookVars, harnessVars, run, samplerVars, workVars, emitVars, history >>

\* ------------------------------------------------------------------------
\* One entry point after the other
\* ------------------------------------------------------------------------
SegmentsEvents(ch) == SelectSeq(ch, LAMBDA c : c.event = "segments")

\* What the caller of the finished entry point holds: the segments of the
\* last line or event for a stream, the resolved list for collect-all.
FinalOf(k, ch, res) ==
  IF k \in {"apiStream", "libStream"} THEN ConsumeStream(ch) ELSE res

Summary ==
  [kind      |-> kind,
   final     |-> FinalOf(kind, chunks, result),
   snapshots |-> Len(SegmentsEvents(chunks)),
   sampled   |-> Range(calls),
   ncalls    |-> Len(calls)]

\* The finished entry point is recorded and the next one is called with a
\* new AdaptiveSampler on the same oracle.
NextRun ==
  /\ pc = "done"
  /\ history' = Append(history, Summary)
  /\ IF run < Len(RunKinds)
     THEN BeginRun(run + 1)
     ELSE /\ pc' = "end"
          /\ UNCHANGED << run, samplerVars, workVars, emitVars, result >>
  /\ UNCHANGED << inputVars, buildVars, jobVars, hookVars, harnessVars >>

Next ==
  \/ OracleResolve
  \/ OracleReject
  \/ ApiStart \/ ApiGrayscale \/ ApiAnchor \/ ApiFinish \/ ApiSkip
  \/ ApiTake \/ ApiPair \/ ApiMid
  \/ LsStart \/ LsGrayscale \/ LsAnchor \/ LsFinish \/ LsSkip \/ LsTake
  \/ LsAfterStart \/ LsAfterEnd \/ LsAfterMid
  \/ LcStart \/ LcGrayscale \/ LcAnchor \/ LcBase \/ LcEnter
  \/ LcAfterStart \/ LcAfterEnd \/ LcAfterMid \/ LcAfterLeft
  \/ LcAfterRight \/ LcFinish
  \/ NextRun

Spec == Init /\ [][Next]_vars

\* ------------------------------------------------------------------------
\* Every single sharp transition, oracle never failing
\* ------------------------------------------------------------------------
Transitions == 1 .. (FULL_CIRCLE - 1)

SweepInit ==
  /\ fakeRanges \in { SingleTransition(t) : t \in Transitions }
  /\ saturation = 60
  /\ lightness = 50
  /\ FreshRun(1)
  /\ history = << >>
  /\ HarnessIdle
  /\ JobIdle
  /\ HookIdle
  /\ BuildIdle

SweepNext ==
  \/ OracleResolve
  \/ ApiStart \/ ApiAnchor \/ ApiFinish \/ ApiSkip
  \/ ApiTake \/ ApiPair \/ ApiMid
  \/ LsStart \/ LsAnchor \/ LsFinish \/ LsSkip \/ LsTake
  \/ LsAfterStart \/ LsAfterEnd \/ LsAfterMid
  \/ LcStart \/ LcAnchor \/ LcBase \/ LcEnter
  \/ LcAfterStart \/ LcAfterEnd \/ LcAfterMid \/ LcAfterLeft
  \/ LcAfterRight \/ LcFinish
  \/ NextRun

SweepSpec == SweepInit /\ [][SweepNext]_vars

\* ------------------------------------------------------------------------
\* Vocabulary of the properties
\* ------------------------------------------------------------------------
Hues == 0 .. (FULL_CIRCLE - 1)

OracleName(h) == sample(fakeRanges, h).name

\* The hue h lies in [startHue, endHue) taken modulo 360.
CoversMod(segment, h) ==
  \/ segment.startHue <= h /\ h < segment.endHue
  \/ segment.startHue <= h + FULL_CIRCLE /\ h + FULL_CIRCLE < segment.endHue

CoverCount(segments, h) ==
  Cardinality({ i \in DOMAIN segments : CoversMod(segments[i], h) })

ExactCover(segments) == \A h \in Hues : CoverCount(segments, h) = 1

NoOverlap(segments) == \A h \in Hues : CoverCount(segments, h) <= 1

RECURSIVE SumSpans(_)
SumSpans(segments) ==
  IF segments = << >> THEN 0
  ELSE (Head(segments).endHue - Head(segments).startHue)
       + SumSpans(Tail(segments))

RECURSIVE CeilLog2(_)
CeilLog2(n) == IF n <= 1 THEN 0 ELSE 1 + CeilLog2((n + 1) \div 2)

KnownNow == getKnownHues(values)

BuiltNow == BuildRaw(values, KnownNow)

MergedNow == mergeSegments(BuiltNow)

\* The list the caller of the current entry point holds.
FinalNow == FinalOf(kind, chunks, result)

\* ------------------------------------------------------------------------
\* C1: with saturation 0, or lightness 0 or 100, a run calls the oracle
\* exactly once, at hue 0, never puts a range on a work list, and its
\* result is the single segment {0, 360, oracle(0)}, whatever names the
\* oracle has at other hues.
\* ------------------------------------------------------------------------
C1_GrayscaleShortcut ==
  (saturation = 0 \/ lightness = 0 \/ lightness = 100) =>
    /\ calls \in { << >>, << 0 >> }
    /\ queue = << >> /\ stack = << >> /\ frames = << >>
    /\ pc = "done" =>
         /\ calls = << 0 >>
         /\ FinalNow = << Seg(0, FULL_CIRCLE, sample(fakeRanges, 0)) >>
    /\ \A i \in DOMAIN history :
         /\ history[i].ncalls = 1
         /\ history[i].sampled = {0}
         /\ history[i].final = << Seg(0, FULL_CIRCLE, sample(fakeRanges, 0)) >>

C1_Witness ==
  /\ (saturation = 0 \/ lightness = 0 \/ lightness = 100)
  /\ pc = "end"
  /\ Len(history) = Len(RunKinds)
  /\ Len(fakeRanges) >= 3

\* ------------------------------------------------------------------------
\* C3 as stated: when the subdivision of a non-degenerate run has finished,
\* every whole-degree hue whose name differs from its predecessor's is a
\* sampled hue, and the built segment containing a hue carries the oracle's
\* name at that hue.
\* ------------------------------------------------------------------------
C3_EveryChangeSampled ==
  (pc = "done" /\ saturation # 0 /\ lightness # 0 /\ lightness # 100) =>
    /\ \A h \in Hues :
         OracleName(h) # OracleName((h + FULL_CIRCLE - 1) % FULL_CIRCLE)
           => h \in DOMAIN values
    /\ \A h \in Hues : \A i \in DOMAIN BuiltNow :
         CoversMod(BuiltNow[i], h) => BuiltNow[i].color.name = OracleName(h)

\* ------------------------------------------------------------------------
\* C3 amended: when the subdivision of a non-degenerate run has finished,
\* two neighbouring sampled hues (360 closing the circle) that are more than
\* MIN_SPAN apart have the same oracle name; so a whole-degree hue whose
\* name differs from its predecessor's is a sampled hue unless it lies
\* strictly between two neighbouring samples whose names agree.
\* ------------------------------------------------------------------------
NextKnown(known, i) ==
  IF i + 1 <= Len(known) THEN known[i + 1] ELSE FULL_CIRCLE

C3_ChangeSampledUnlessHidden ==
  (pc = "done" /\ saturation # 0 /\ lightness # 0 /\ lightness # 100) =>
    LET known == KnownNow
    IN  /\ \A i \in DOMAIN known :
             NextKnown(known, i) - known[i] > MIN_SPAN
               => OracleName(known[i]) = OracleName(NextKnown(known, i))
        /\ \A h \in Hues :
             OracleName(h) # OracleName((h + FULL_CIRCLE - 1) % FULL_CIRCLE)
               => \/ h \in DOMAIN values
                  \/ \E i \in DOMAIN known :
                       /\ known[i] < h /\ h < NextKnown(known, i)
                       /\ OracleName(known[i])
                            = OracleName(NextKnown(known, i))

C3_Witness ==
  /\ pc = "done" /\ saturation # 0 /\ lightness # 0 /\ lightness # 100
  /\ fakeRanges = RedGreenBlue
  /\ {90, 210} \subseteq DOMAIN values
  /\ 150 \notin DOMAIN values

\* ------------------------------------------------------------------------
\* C4: at every point of a run the builder's segments over the known hues
\* start at 0, each ends where the next starts, the last ends at 360, and
\* after merging every hue of the circle lies in exactly one segment (taken
\* modulo 360) and the spans sum to 360.
\* ------------------------------------------------------------------------
C4_BuildMergePartition ==
  LET built == BuiltNow
      merged == MergedNow
  IN  Len(KnownNow) > 0 =>
        /\ Len(built) = Len(KnownNow)
        /\ built[1].startHue = 0
        /\ \A i \in 1 .. (Len(built) - 1) :
             built[i].endHue = built[i + 1].startHue
        /\ Last(built).endHue = FULL_CIRCLE
        /\ \A i \in DOMAIN merged : merged[i].startHue < merged[i].endHue
        /\ ExactCover(merged)
        /\ SumSpans(merged) = FULL_CIRCLE

C4_Witness ==
  /\ Len(MergedNow) >= 2
  /\ Len(BuiltNow) > Len(MergedNow) + 1
  /\ \E i \in DOMAIN MergedNow : MergedNow[i].endHue > FULL_CIRCLE

\* ------------------------------------------------------------------------
\* C5 as stated: the list collectStreamedSegments returns covers every hue
\* of [0,360) exactly once.
\* ------------------------------------------------------------------------
C5_FinishedCoversCircle ==
  (kind = "apiCollect" /\ pc = "done") => ExactCover(result)

\* ------------------------------------------------------------------------
\* C5 amended: the segments collectStreamedSegments returns never overlap;
\* they cover [0,360) exactly once when the merged segments have pairwise
\* different canonical names, and otherwise the only hues left uncovered
\* are those of merged segments whose canonical name another merged
\* segment shares.
\* ------------------------------------------------------------------------
SharesKey(segments, i) ==
  \E j \in DOMAIN segments :
    /\ j # i
    /\ canonicalizeName(segments[j].color.name)
         = canonicalizeName(segments[i].color.name)

C5_CoversExceptDroppedDuplicates ==
  (kind = "apiCollect" /\ pc = "done") =>
    /\ NoOverlap(result)
    /\ (\A i \in DOMAIN MergedNow : ~SharesKey(MergedNow, i))
         => ExactCover(result)
    /\ \A h \in Hues :
         CoverCount(result, h) = 0 =>
           \E i \in DOMAIN MergedNow :
             CoversMod(MergedNow[i], h) /\ SharesKey(MergedNow, i)

C5_Witness ==
  /\ kind = "apiCollect" /\ pc = "done"
  /\ Len(result) >= 3
  /\ ExactCover(result)

\* ------------------------------------------------------------------------
\* C6 as stated: for an oracle with one name everywhere a run calls the
\* oracle exactly once, for any saturation and lightness.
\* ------------------------------------------------------------------------
UniformOracle == \A i \in DOMAIN fakeRanges : fakeRanges[i].name = fakeRanges[1].name

C6_UniformOneCall ==
  (UniformOracle /\ pc = "done") => Len(calls) = 1

\* ------------------------------------------------------------------------
\* C6 amended: for an oracle with one name everywhere a run calls the
\* oracle exactly once (hue 0) when saturation is 0 or lightness is 0 or
\* 100, and exactly twice otherwise: hue 0 and the midpoint 180 of the
\* first range (its end 360 reuses hue 0).
\* ------------------------------------------------------------------------
C6_UniformOneOrTwoCalls ==
  (UniformOracle /\ pc = "done") =>
    IF saturation = 0 \/ lightness = 0 \/ lightness = 100
    THEN calls = << 0 >>
    ELSE calls = << 0, 180 >>

C6_Witness ==
  /\ UniformOracle /\ pc = "done" /\ kind = "libCollect"
  /\ saturation # 0 /\ lightness # 0 /\ lightness # 100
  /\ Len(calls) = 2

\* ------------------------------------------------------------------------
\* C7: for two names with one sharp transition at any whole degree and
\* non-degenerate saturation and lightness, a run calls the oracle at most
\* 4 * ceil(log2(360)) + 2 = 38 times.
\* ------------------------------------------------------------------------
C7_LogarithmicCalls ==
  (/\ Len(fakeRanges) = 2
   /\ saturation # 0 /\ lightness # 0 /\ lightness # 100) =>
    /\ Len(calls) <= 4 * CeilLog2(FULL_CIRCLE \div MIN_SPAN) + 2
    /\ \A i \in DOMAIN history :
         history[i].ncalls <= 4 * CeilLog2(FULL_CIRCLE \div MIN_SPAN) + 2

C7_Witness ==
  /\ Len(fakeRanges) = 2 /\ pc = "done"
  /\ fakeRanges[1].end = 1
  /\ 1 \in DOMAIN values
  /\ Len(calls) > 2 * CeilLog2(FULL_CIRCLE \div MIN_SPAN)

\* ------------------------------------------------------------------------
\* C8: mergeSegments fuses each run of adjacent same-name segments into its
\* first entry, ending where the run's last entry ends; when more than one
\* entry remains and the first and last share a name they become one
\* segment from the last entry's startHue to the first entry's endHue + 360;
\* so no two cyclically adjacent segments share a name, a one-entry list is
\* returned unchanged, and Rose [0,40), Gray [40,300), Rose [300,360)
\* yields 2 segments with Rose from 300 to 400.
\* ------------------------------------------------------------------------
RunStarts(built) ==
  { i \in DOMAIN built :
      i = 1 \/ built[i].color.name # built[i - 1].color.name }

RunEnd(built, i) ==
  CHOOSE j \in i .. Len(built) :
    /\ \A k \in i .. j : built[k].color.name = built[i].color.name
    /\ j = Len(built) \/ built[j + 1].color.name # built[i].color.name

Fused(built) ==
  LET starts == SetToSortedSeq(RunStarts(built))
  IN  [n \in DOMAIN starts |->
         [built[starts[n]] EXCEPT
            !.endHue = built[RunEnd(built, starts[n])].endHue]]

C8_MergeFusesAndWraps ==
  LET built == BuiltNow
      fused == Fused(built)
      merged == mergeSegments(built)
  IN  /\ Len(built) = 1 => merged = built
      /\ IF Len(fused) > 1 /\ fused[1].color.name = Last(fused).color.name
         THEN merged =
                << [fused[1] EXCEPT !.startHue = Last(fused).startHue,
                                    !.endHue = fused[1].endHue + FULL_CIRCLE] >>
                \o SubSeq(fused, 2, Len(fused) - 1)
         ELSE merged = fused
      /\ \A i \in DOMAIN merged :
           Len(merged) > 1 =>
             merged[i].color.name # merged[(i % Len(merged)) + 1].color.name
      /\ (/\ fakeRanges = RoseGrayRose /\ pc = "done"
          /\ saturation # 0 /\ lightness # 0 /\ lightness # 100) =>
           FinalNow = << Seg(300, 400, sample(fakeRanges, 0)),
                         Seg(40, 300, sample(fakeRanges, 40)) >>

C8_Witness ==
  /\ fakeRanges = RoseGrayRose /\ pc = "done" /\ kind = "apiCollect"
  /\ Len(result) = 2
  /\ result[1].startHue = 300 /\ result[1].endHue = 400
  /\ Len(BuiltNow) > 3

\* ------------------------------------------------------------------------
\* C10: on the same oracle and options the last snapshot of the stream
\* equals the list collect-all returns (streamSegmentHueSpace and
\* collectStreamedSegments; segmentHueSpaceStream and segmentHueSpace), and
\* for Red [0,90), Green [90,210), Blue [210,360) a stream emits more than
\* one snapshot.
\* ------------------------------------------------------------------------
C10_StreamEqualsCollect ==
  /\ Len(history) >= 2 => history[1].final = history[2].final
  /\ Len(history) >= 4 => history[3].final = history[4].final
  /\ (kind = "apiCollect" /\ pc = "done") => result = history[1].final
  /\ (kind = "libCollect" /\ pc = "done") => result = history[3].final
  /\ \A i \in DOMAIN history :
       (/\ fakeRanges = RedGreenBlue
        /\ saturation # 0 /\ lightness # 0 /\ lightness # 100
        /\ history[i].kind \in {"apiStream", "libStream"})
         => history[i].snapshots > 1

C10_Witness ==
  /\ pc = "end" /\ Len(history) = 4
  /\ fakeRanges = RedGreenBlue
  /\ Len(history[1].final) = 3 /\ Len(history[4].final) = 3
  /\ history[3].snapshots > 1

\* ------------------------------------------------------------------------
\* The AdaptiveSampler on its own: several callers of get, in any order
\* ------------------------------------------------------------------------
NumCallers == 2

MaxRejections == 1

TestHues == {0, 360, 180, 0 - 180}

IdleCaller == [state |-> "idle", hue |-> 0, owner |-> FALSE, outcome |-> "none"]

SamplerInit ==
  /\ fakeRanges \in {RedGreenBlue}
  /\ saturation = 60
  /\ lightness = 50
  /\ run = 1
  /\ pc = "sampler"
  /\ promises = << >>
  /\ values = << >>
  /\ calls = << >>
  /\ queue = << >>
  /\ stack = << >>
  /\ frames = << >>
  /\ cur = NoRange
  /\ fresh = FALSE
  /\ lastSignature = << >>
  /\ lastSegments = << >>
  /\ lastPayload = null
  /\ chunks = << >>
  /\ streamState = "none"
  /\ result = << >>
  /\ history = << >>
  /\ callers = [c \in 1 .. NumCallers |-> IdleCaller]
  /\ rejections = 0
  /\ fnIn = << >>
  /\ fnOut = << >>
  /\ MemoIdle
  /\ JobIdle
  /\ HookIdle
  /\ BuildIdle

\* What a promise in the given state hands to a caller awaiting it.
OutcomeOf(state) ==
  IF state = "fulfilled" THEN "value"
  ELSE IF state = "rejected" THEN "error" ELSE "none"

\* get(hue) up to its await: an existing promise is joined, otherwise the
\* fetcher is called and the caller owns the new promise.
CallerGet(c, hue) ==
  /\ pc = "sampler"
  /\ callers[c].state = "idle"
  /\ LET st == SamplerGet(SamplerState, hue)
     IN  /\ promises' = st.promises
         /\ calls' = st.calls
         /\ callers' = [callers EXCEPT ![c] =
              [state   |-> "awaiting",
               hue     |-> hue,
               owner   |-> keyFor(hue) \notin DOMAIN promises,
               outcome |-> OutcomeOf(st.promises[keyFor(hue)])]]
  /\ UNCHANGED << inputVars, buildVars, jobVars, hookVars, run, pc, values, workVars, emitVars, result,
                  history, rejections, fnIn, fnOut, memoVars >>

\* Faulty variant of Settle: only the caller that created the promise is
\* told.
SettleOwnerOnly(key, outcome) ==
  [c \in DOMAIN callers |->
     IF callers[c].state = "awaiting" /\ keyFor(callers[c].hue) = key
        /\ callers[c].outcome = "none" /\ callers[c].owner
     THEN [callers[c] EXCEPT !.outcome = outcome]
     ELSE callers[c]]

\* The promise stored under the key is settled: every caller awaiting it
\* is handed the outcome.
Settle(key, outcome) ==
  [c \in DOMAIN callers |->
     IF callers[c].state = "awaiting" /\ keyFor(callers[c].hue) = key
        /\ callers[c].outcome = "none"
     THEN [callers[c] EXCEPT !.outcome = outcome]
     ELSE callers[c]]

\* The fetcher's promise is fulfilled: the .then callback stores the value.
FetcherResolves(key) ==
  /\ pc = "sampler"
  /\ key \in DOMAIN promises /\ promises[key] = "pending"
  /\ promises' = [promises EXCEPT ![key] = "fulfilled"]
  /\ values' = SetKey(values, key, sample(fakeRanges, key))
  /\ callers' = Settle(key, "value")
  /\ UNCHANGED << inputVars, buildVars, jobVars, hookVars, run, pc, calls, workVars, emitVars, result,
                  history, rejections, fnIn, fnOut, memoVars >>

\* The fetcher's promise is rejected.
FetcherRejects(key) ==
  /\ pc = "sampler"
  /\ key \in DOMAIN promises /\ promises[key] = "pending"
  /\ rejections < MaxRejections
  /\ promises' = [promises EXCEPT ![key] = "rejected"]
  /\ rejections' = rejections + 1
  /\ callers' = Settle(key, "error")
  /\ UNCHANGED << inputVars, buildVars, jobVars, hookVars, run, pc, values, calls, workVars, emitVars,
                  result, history, fnIn, fnOut, memoVars >>

\* Faulty variant of CallerReturn: every caller that fails deletes the
\* entry of its key.
CallerReturnAlwaysDeletes(c) ==
  /\ pc = "sampler"
  /\ callers[c].state = "awaiting"
  /\ callers[c].outcome # "none"
  /\ promises' = IF callers[c].outcome = "error"
                     /\ keyFor(callers[c].hue) \in DOMAIN promises
                 THEN RemoveKey(promises, keyFor(callers[c].hue))
                 ELSE promises
  /\ callers' = [callers EXCEPT ![c] = IdleCaller]
  /\ UNCHANGED << inputVars, buildVars, jobVars, hookVars, run, pc, values, calls, workVars, emitVars,
                  result, history, rejections, fnIn, fnOut, memoVars >>

\* get resumes after its await: the caller that created a rejected promise
\* deletes the in-flight entry in its catch block.
CallerReturn(c) ==
  /\ pc = "sampler"
  /\ callers[c].state = "awaiting"
  /\ callers[c].outcome # "none"
  /\ promises' = IF callers[c].outcome = "error" /\ callers[c].owner
                 THEN RemoveKey(promises, keyFor(callers[c].hue))
                 ELSE promises
  /\ callers' = [callers EXCEPT ![c] = IdleCaller]
  /\ UNCHANGED << inputVars, buildVars, jobVars, hookVars, run, pc, values, calls, workVars, emitVars,
                  result, history, rejections, fnIn, fnOut, memoVars >>

SamplerNext ==
  \/ \E c \in 1 .. NumCallers : \E hue \in TestHues : CallerGet(c, hue)
  \/ \E key \in Hues : FetcherResolves(key)
  \/ \E key \in Hues : FetcherRejects(key)
  \/ \E c \in 1 .. NumCallers : CallerReturn(c)

SamplerSpec == SamplerInit /\ [][SamplerNext]_vars

\* ------------------------------------------------------------------------
\* C2: while no oracle call has failed, get calls the oracle at most once
\* per normalized hue key, whatever the order of concurrent and repeated
\* calls: every key in flight or completed has exactly one call, and
\* get(360) joins the entry of hue 0.
\* ------------------------------------------------------------------------
CallsOf(hue) == Cardinality({ i \in DOMAIN calls : calls[i] = hue })

C2_OneCallPerKey ==
  rejections = 0 =>
    /\ \A h \in Range(calls) : h \in Hues /\ CallsOf(h) = 1
    /\ \A c \in DOMAIN callers :
         callers[c].state = "awaiting" =>
           CallsOf(normalizeHue(callers[c].hue)) = 1

C2_Witness ==
  /\ rejections = 0
  /\ calls = << 0 >>
  /\ \E c, d \in DOMAIN callers :
       /\ callers[c].state = "awaiting" /\ callers[c].hue = 0
       /\ callers[c].owner
       /\ callers[d].state = "awaiting" /\ callers[d].hue = 360
       /\ ~callers[d].owner

\* ------------------------------------------------------------------------
\* dedupeSegments on its own, on any short list of segments
\* ------------------------------------------------------------------------
MaxLen == 3

PoolNames == { ScreaminApos, ScreaminPlain, Blue }

PoolSpans == { << 0, 40 >>, << 350, 30 >>, << 100, 200 >>, << 300, 400 >> }

SegPool ==
  { Seg(sp[1], sp[2], [name |-> n, h |-> normalizeHue(sp[1])]) :
      sp \in PoolSpans, n \in PoolNames }

ListsUpTo(n) == UNION { [1 .. k -> SegPool] : k \in 0 .. n }

DedupeInit ==
  /\ fakeRanges = Uniform
  /\ saturation = 60
  /\ lightness = 50
  /\ run = 1
  /\ pc = "fn"
  /\ promises = << >>
  /\ values = << >>
  /\ calls = << >>
  /\ queue = << >>
  /\ stack = << >>
  /\ frames = << >>
  /\ cur = NoRange
  /\ fresh = FALSE
  /\ lastSignature = << >>
  /\ lastSegments = << >>
  /\ lastPayload = null
  /\ chunks = << >>
  /\ streamState = "none"
  /\ result = << >>
  /\ history = << >>
  /\ callers = << >>
  /\ rejections = 0
  /\ fnIn \in ListsUpTo(MaxLen)
  /\ fnOut = << >>
  /\ MemoIdle
  /\ JobIdle
  /\ HookIdle
  /\ BuildIdle

ApplyDedupe ==
  /\ pc = "fn"
  /\ fnOut' = dedupeSegments(fnIn)
  /\ pc' = "fnDone"
  /\ UNCHANGED << inputVars, buildVars, jobVars, hookVars, run, samplerVars, workVars, emitVars, result,
                  history, callers, rejections, fnIn, memoVars >>

DedupeSpec == DedupeInit /\ [][ApplyDedupe]_vars

\* ------------------------------------------------------------------------
\* C9: dedupeSegments returns exactly one segment for each canonical name
\* key of its input (the name lower-cased, non-alphanumerics removed), and
\* that segment is the input's first segment of greatest angular span among
\* those sharing the key.
\* ------------------------------------------------------------------------
KeysOf(segments) ==
  { canonicalizeName(segments[i].color.name) : i \in DOMAIN segments }

WithKey(segments, key) ==
  { i \in DOMAIN segments : canonicalizeName(segments[i].color.name) = key }

\* Index of the first segment of greatest span among those with the key.
Widest(segments, key) ==
  CHOOSE i \in WithKey(segments, key) :
    \A j \in WithKey(segments, key) :
      \/ segmentSpan(segments[j]) < segmentSpan(segments[i])
      \/ segmentSpan(segments[j]) = segmentSpan(segments[i]) /\ i <= j

C9_DedupeKeepsWidest ==
  pc = "fnDone" =>
    /\ KeysOf(fnOut) = KeysOf(fnIn)
    /\ Len(fnOut) = Cardinality(KeysOf(fnIn))
    /\ \A key \in KeysOf(fnIn) :
         /\ Cardinality(WithKey(fnOut, key)) = 1
         /\ \A o \in WithKey(fnOut, key) :
              fnOut[o] = fnIn[Widest(fnIn, key)]
    /\ canonicalizeName(ScreaminApos) = canonicalizeName(ScreaminPlain)
    /\ canonicalizeName(ScreaminApos)
         = << "s","c","r","e","a","m","i","n","g","r","e","e","n" >>

C9_Witness ==
  /\ pc = "fnDone"
  /\ Len(fnIn) = 3 /\ Len(fnOut) = 1
  /\ fnIn[1].color.name # fnIn[2].color.name
  /\ segmentSpan(fnIn[1]) < segmentSpan(fnIn[2])
  /\ segmentSpan(fnIn[2]) = segmentSpan(fnIn[3])
  /\ fnIn[2] # fnIn[3]
  /\ fnOut[1] = fnIn[2]

\* ------------------------------------------------------------------------
\* C11: no snapshot written to a stream is empty: every NDJSON line of
\* streamSegmentHueSpace and every segments event of segmentHueSpaceStream
\* carries at least one segment, in every state of a run, failed runs
\* included.
\* ------------------------------------------------------------------------
C11_NoEmptySnapshot ==
  /\ \A i \in DOMAIN chunks :
       chunks[i].event = "segments" => Len(JSONparse(chunks[i].data)) >= 1
  /\ lastPayload # null => Len(JSONparse(lastPayload)) >= 1

C11_Witness ==
  /\ kind = "libStream"
  /\ Len(SegmentsEvents(chunks)) >= 3
  /\ Len(history) >= 1
  /\ history[1].kind = "apiStream" /\ history[1].snapshots >= 3

\* ------------------------------------------------------------------------
\* C12: the end of a successful streaming run.
\* ------------------------------------------------------------------------
IsStream == kind \in {"apiStream", "libStream"}

\* The step in which the run of a stream finishes.
FinishingStep == IsStream /\ pc # "done" /\ pc' = "done"

\* The finished result of the run, from the completed samples.
FinishedResult ==
  IF IsApi THEN buildSegmentsFromKnownHues(values, KnownNow)
  ELSE buildSegmentsFromSampler(values)

\* C12 as stated: the step that finishes a successful streaming run writes
\* one more snapshot, identical to the last one or not, and closes the
\* stream.
C12_FinalSnapshotAlwaysEmitted ==
  [][FinishingStep =>
       /\ Len(SegmentsEvents(chunks')) = Len(SegmentsEvents(chunks)) + 1
       /\ streamState' = "closed"]_vars

\* C12 as the code has it: the step that finishes a successful streaming
\* run writes the finished result only when its serialization differs from
\* the last payload written, so that an identical final snapshot is
\* suppressed; the last snapshot on the stream is the finished result; the
\* stream is closed, for segmentHueSpaceStream after a complete event that
\* is the last event.
C12_FinalSnapshotUnlessIdentical ==
  [][FinishingStep =>
       /\ Len(SegmentsEvents(chunks')) =
            Len(SegmentsEvents(chunks))
              + (IF JSONstringify(FinishedResult) = lastPayload
                 THEN 0 ELSE 1)
       /\ (~Degenerate) => SegmentsEvents(chunks') = SegmentsEvents(chunks)
       /\ ConsumeStream(chunks') = FinishedResult
       /\ streamState' = "closed"
       /\ IsLibStream =>
            /\ Last(chunks').event = "complete"
            /\ Len(chunks') = Len(SegmentsEvents(chunks')) + 1
       /\ IsApi => chunks' = SegmentsEvents(chunks')]_vars

C12_Witness ==
  /\ kind = "libStream" /\ pc = "done"
  /\ ~Degenerate
  /\ streamState = "closed"
  /\ Last(chunks).event = "complete"
  /\ Len(SegmentsEvents(chunks)) >= 2
  /\ Len(history) >= 1 /\ history[1].snapshots >= 2

\* ------------------------------------------------------------------------
\* C13: when an oracle call fails during a run that writes to a stream, the
\* stream is in its error state, it is not closed and carries no complete
\* event, and nothing more happens on it: the run takes no further step, so
\* no snapshot follows the error.  A stream is in its error state only
\* after such a failure.
\* ------------------------------------------------------------------------
HasStream == kind \in {"apiStream", "apiCollect", "libStream"}

C13_ErrorIsTerminal ==
  /\ (pc = "failed" /\ HasStream) =>
       /\ streamState = "errored"
       /\ \A i \in DOMAIN chunks : chunks[i].event # "complete"
       /\ result = << >>
       /\ ~ENABLED Next
  /\ streamState = "errored" => pc = "failed"
  /\ streamState = "closed" => pc \in {"done", "end"}

C13_Witness ==
  /\ kind = "libStream" /\ pc = "failed"
  /\ streamState = "errored"
  /\ Len(SegmentsEvents(chunks)) >= 2
  /\ Len(calls) >= 3

\* ------------------------------------------------------------------------
\* The collect-all entry points and their module-level memo:
\* collectStreamedSegments (api) and segmentHueSpace (lib), called by
\* several clients in any order, with or without an injected sample.  The
\* oracle names every hue the same, so that a computation is get(0) and,
\* outside the grayscale shortcut, the range {0, 360} with its midpoint.
\* ------------------------------------------------------------------------
NumClients == 3

\* options.sample of a call: none (the color API is used), or a stub that
\* throws.
Samples == {"none", "throws"}

\* `${saturation}:${lightness}`
MemoKey == << saturation, lightness >>

IdleClient ==
  [stage |-> "idle", sample |-> "none", attempt |-> 0, owner |-> FALSE,
   outcome |-> "none", value |-> << >>]

MemoInit ==
  /\ fakeRanges = Uniform
  /\ saturation \in Saturations
  /\ lightness = 50
  /\ run \in {2, 4}
  /\ pc = "memo"
  /\ promises = << >>
  /\ values = << >>
  /\ calls = << >>
  /\ queue = << >>
  /\ stack = << >>
  /\ frames = << >>
  /\ cur = NoRange
  /\ fresh = FALSE
  /\ lastSignature = << >>
  /\ lastSegments = << >>
  /\ lastPayload = null
  /\ chunks = << >>
  /\ streamState = "none"
  /\ result = << >>
  /\ history = << >>
  /\ callers = << >>
  /\ rejections = 0
  /\ fnIn = << >>
  /\ fnOut = << >>
  /\ memo = << >>
  /\ attempts = << >>
  /\ clients = [c \in 1 .. NumClients |-> IdleClient]
  /\ JobIdle
  /\ HookIdle
  /\ BuildIdle

\* Faulty variant of UsesMemo: the memo is consulted with a sample too.
UsesMemoAlways(smp) == TRUE

\* if (sample) { return ... }: a call with an injected sample runs its own
\* computation and does not touch the memo.
UsesMemo(smp) == smp = "none"

\* Faulty variant of MemoGet: the look-up finds nothing.
MemoGetMisses(m, key) == 0

\* memo.get(key): the index of the computation stored, 0 for undefined.
MemoGet(m, key) == IF key \in DOMAIN m THEN m[key] ELSE 0

\* Faulty variant of MemoDelete: the entry stays.
MemoDeleteKeeps(m, key) == m

\* memo.delete(key)
MemoDelete(m, key) == RemoveKey(m, key)

\* A computation up to its first await: a new AdaptiveSampler, and
\* createSegments calls sampler.get(0).
StartAttempt(smp) ==
  LET st == SamplerGet([promises |-> << >>, calls |-> << >>], 0)
  IN  [sample |-> smp, promises |-> st.promises, values |-> << >>,
       calls |-> st.calls, stage |-> "anchor", state |-> "pending",
       value |-> << >>]

\* The list a finished computation resolves with.
AttemptResult(vals) ==
  IF IsApi
  THEN ConsumeStream(
         OnProgress([lastPayload |-> null, chunks |-> << >>],
                    buildSegmentsFromKnownHues(vals, getKnownHues(vals)))
           .chunks)
  ELSE buildSegmentsFromSampler(vals)

\* A client calls the entry point: the part of the async function before
\* its first await.
CollectCall(c, smp) ==
  /\ pc = "memo"
  /\ clients[c].stage = "idle"
  /\ LET cached == IF UsesMemo(smp) THEN MemoGet(memo, MemoKey) ELSE 0
         a == Len(attempts) + 1
     IN  IF cached # 0
         THEN /\ clients' = [clients EXCEPT ![c] =
                   [stage |-> "waiting", sample |-> smp, attempt |-> cached,
                    owner |-> FALSE, outcome |-> "none", value |-> << >>]]
              /\ UNCHANGED << memo, attempts >>
         ELSE /\ attempts' = Append(attempts, StartAttempt(smp))
              /\ memo' = IF UsesMemo(smp) THEN SetKey(memo, MemoKey, a)
                         ELSE memo
              /\ clients' = [clients EXCEPT ![c] =
                   [stage |-> "waiting", sample |-> smp, attempt |-> a,
                    owner |-> UsesMemo(smp), outcome |-> "none",
                    value |-> << >>]]
  /\ UNCHANGED << inputVars, buildVars, jobVars, hookVars, run, pc, samplerVars, workVars, emitVars,
                  result, history, callers, rejections, fnIn, fnOut >>

\* The oracle answers the pending request of computation a.
AttemptResolve(a) ==
  /\ pc = "memo"
  /\ attempts[a].state = "pending"
  /\ attempts[a].sample = "none"
  /\ \E key \in DOMAIN attempts[a].promises :
       /\ attempts[a].promises[key] = "pending"
       /\ attempts' = [attempts EXCEPT
            ![a].promises = [@ EXCEPT ![key] = "fulfilled"],
            ![a].values = SetKey(@, key, sample(fakeRanges, key))]
  /\ UNCHANGED << inputVars, buildVars, jobVars, hookVars, run, pc, samplerVars, workVars, emitVars,
                  result, history, callers, rejections, fnIn, fnOut, memo,
                  clients >>

\* The oracle fails the pending request of computation a: get deletes the
\* in-flight entry and rethrows, and the computation's promise rejects.
AttemptReject(a) ==
  /\ pc = "memo"
  /\ attempts[a].state = "pending"
  /\ attempts[a].sample = "throws" \/ rejections < MaxRejections
  /\ \E key \in DOMAIN attempts[a].promises :
       /\ attempts[a].promises[key] = "pending"
       /\ attempts' = [attempts EXCEPT
            ![a].promises = RemoveKey(@, key),
            ![a].state = "rejected"]
  /\ rejections' = IF attempts[a].sample = "none" THEN rejections + 1
                   ELSE rejections
  /\ UNCHANGED << inputVars, buildVars, jobVars, hookVars, run, pc, samplerVars, workVars, emitVars,
                  result, history, callers, fnIn, fnOut, memo, clients >>

AttemptFulfilled(a, hue) ==
  /\ keyFor(hue) \in DOMAIN attempts[a].promises
  /\ attempts[a].promises[keyFor(hue)] = "fulfilled"

\* createSegments resumes in computation a: after the anchor it returns
\* (grayscale) or takes the range {0, 360} and requests its ends and its
\* midpoint; after the midpoint the three names agree and it returns.
AttemptStep(a) ==
  /\ pc = "memo"
  /\ attempts[a].state = "pending"
  /\ \/ /\ attempts[a].stage = "anchor"
        /\ AttemptFulfilled(a, 0)
        /\ IF Degenerate
           THEN attempts' = [attempts EXCEPT
                  ![a].stage = "done",
                  ![a].state = "fulfilled",
                  ![a].value = AttemptResult(attempts[a].values)]
           ELSE LET st0 == [promises |-> attempts[a].promises,
                            calls |-> attempts[a].calls]
                    st == SamplerGet(SamplerGet(SamplerGet(st0, 0),
                                                FULL_CIRCLE),
                                     Midpoint(0, FULL_CIRCLE) % FULL_CIRCLE)
                IN  attempts' = [attempts EXCEPT
                      ![a].stage = "mid",
                      ![a].promises = st.promises,
                      ![a].calls = st.calls]
     \/ /\ attempts[a].stage = "mid"
        /\ AttemptFulfilled(a, Midpoint(0, FULL_CIRCLE) % FULL_CIRCLE)
        /\ NamesMatch(attempts[a].values[keyFor(0)],
                      attempts[a].values[
                        keyFor(Midpoint(0, FULL_CIRCLE) % FULL_CIRCLE)],
                      attempts[a].values[keyFor(FULL_CIRCLE)])
        /\ attempts' = [attempts EXCEPT
             ![a].stage = "done",
             ![a].state = "fulfilled",
             ![a].value = AttemptResult(attempts[a].values)]
  /\ UNCHANGED << inputVars, buildVars, jobVars, hookVars, run, pc, samplerVars, workVars, emitVars,
                  result, history, callers, rejections, fnIn, fnOut, memo,
                  clients >>

\* The promise a client awaits is settled and the client resumes: the
\* caller that stored a rejected promise in the memo deletes the entry in
\* its catch block and rethrows.
ClientReturn(c) ==
  /\ pc = "memo"
  /\ clients[c].stage = "waiting"
  /\ attempts[clients[c].attempt].state # "pending"
  /\ LET at == attempts[clients[c].attempt]
     IN  /\ clients' = [clients EXCEPT ![c] =
               [@ EXCEPT !.stage = "returned",
                         !.outcome = OutcomeOf(at.state),
                         !.value = at.value]]
         /\ memo' = IF clients[c].owner /\ at.state = "rejected"
                    THEN MemoDelete(memo, MemoKey) ELSE memo
  /\ UNCHANGED << inputVars, buildVars, jobVars, hookVars, run, pc, samplerVars, workVars, emitVars,
                  result, history, callers, rejections, fnIn, fnOut,
                  attempts >>

MemoNext ==
  \/ \E c \in 1 .. NumClients : \E smp \in Samples : CollectCall(c, smp)
  \/ \E a \in DOMAIN attempts : AttemptResolve(a)
  \/ \E a \in DOMAIN attempts : AttemptReject(a)
  \/ \E a \in DOMAIN attempts : AttemptStep(a)
  \/ \E c \in 1 .. NumClients : ClientReturn(c)

MemoSpec == MemoInit /\ [][MemoNext]_vars

\* ------------------------------------------------------------------------
\* Vocabulary of the memo properties
\* ------------------------------------------------------------------------
Called(c) == clients[c].stage # "idle"

Returned(c) == clients[c].stage = "returned"

\* Client c makes its call in this step.
Calls(c) == clients[c].stage = "idle" /\ clients'[c].stage = "waiting"

AttemptsWith(smp) == { a \in DOMAIN attempts : attempts[a].sample = smp }

\* ------------------------------------------------------------------------
\* C14: a collect-all call without a sample whose computation fails on the
\* oracle rejects with the error and returns no segment list; once the
\* caller that stored the computation in the memo has resumed, the memo no
\* longer holds that computation, and a call that finds the memo empty
\* starts a new computation, which calls the oracle at hue 0 again.
\* ------------------------------------------------------------------------
C14_FailureEvictsMemo ==
  /\ [](\A c \in DOMAIN clients :
          (/\ Returned(c)
           /\ clients[c].sample = "none"
           /\ attempts[clients[c].attempt].state = "rejected")
            => /\ clients[c].outcome = "error"
               /\ clients[c].value = << >>
               /\ clients[c].owner =>
                    MemoGet(memo, MemoKey) # clients[c].attempt)
  /\ [][\A c \in DOMAIN clients :
          (/\ Calls(c)
           /\ clients'[c].sample = "none"
           /\ MemoGet(memo, MemoKey) = 0)
            => /\ clients'[c].attempt = Len(attempts) + 1
               /\ clients'[c].owner
               /\ Len(attempts') = Len(attempts) + 1
               /\ attempts'[Len(attempts')].state = "pending"
               /\ attempts'[Len(attempts')].calls = << 0 >>
               /\ MemoGet(memo', MemoKey) = Len(attempts')]_vars

C14_Witness ==
  \E c, d, e \in DOMAIN clients :
    /\ clients[c].sample = "none" /\ clients[c].owner /\ Returned(c)
    /\ clients[c].attempt = 1 /\ clients[c].outcome = "error"
    /\ clients[d].sample = "none" /\ ~clients[d].owner /\ Returned(d)
    /\ clients[d].attempt = 1 /\ clients[d].outcome = "error"
    /\ clients[e].sample = "none" /\ clients[e].owner /\ Returned(e)
    /\ clients[e].attempt = 2 /\ clients[e].outcome = "value"
    /\ Len(clients[e].value) = 1
    /\ MemoGet(memo, MemoKey) = 2

\* ------------------------------------------------------------------------
\* C15: calls without a sample share the computation the memo holds: a
\* call that finds an entry joins it and starts nothing, of two
\* computations started through the memo the earlier one has failed, every
\* caller receives the outcome of its computation, and an entry of the
\* memo is never replaced, only removed after its computation has failed.
\* ------------------------------------------------------------------------
C15_FirstRequesterWins ==
  /\ [](\A a, b \in AttemptsWith("none") :
          a < b => attempts[a].state = "rejected")
  /\ [](\A c \in DOMAIN clients :
          (Called(c) /\ clients[c].sample = "none") =>
            /\ clients[c].attempt \in AttemptsWith("none")
            /\ Returned(c) =>
                 /\ clients[c].outcome =
                      OutcomeOf(attempts[clients[c].attempt].state)
                 /\ clients[c].value = attempts[clients[c].attempt].value
            /\ \E d \in DOMAIN clients :
                 /\ clients[d].owner
                 /\ clients[d].attempt = clients[c].attempt)
  /\ [][\A c \in DOMAIN clients :
          (/\ Calls(c)
           /\ clients'[c].sample = "none"
           /\ MemoGet(memo, MemoKey) # 0)
            => /\ clients'[c].attempt = MemoGet(memo, MemoKey)
               /\ attempts' = attempts
               /\ memo' = memo]_vars
  /\ [][MemoGet(memo, MemoKey) # 0 =>
          \/ memo' = memo
          \/ /\ MemoGet(memo', MemoKey) = 0
             /\ attempts[MemoGet(memo, MemoKey)].state = "rejected"]_vars

C15_Witness ==
  /\ ~Degenerate
  /\ Len(attempts) = 1
  /\ attempts[1].calls = << 0, 180 >>
  /\ \A c \in DOMAIN clients :
       /\ Returned(c) /\ clients[c].sample = "none"
       /\ clients[c].attempt = 1
       /\ clients[c].outcome = "value"
       /\ Len(clients[c].value) = 1
  /\ Cardinality({ c \in DOMAIN clients : clients[c].owner }) = 1

\* ------------------------------------------------------------------------
\* C16 as stated: two calls given a sample stub that throws, the second
\* made while the computation of the first is in flight, share one
\* computation.
\* ------------------------------------------------------------------------
C16_ThrowingStubShared ==
  \A c, d \in DOMAIN clients :
    (/\ c # d
     /\ clients[c].stage = "waiting" /\ clients[c].sample = "throws"
     /\ clients[d].stage = "waiting" /\ clients[d].sample = "throws"
     /\ attempts[clients[c].attempt].state = "pending"
     /\ attempts[clients[d].attempt].state = "pending")
      => clients[c].attempt = clients[d].attempt

\* C16 as the code has it: a call given a sample stub that throws runs a
\* computation of its own, which the memo never holds and no other call
\* joins; it calls the stub exactly once, at hue 0, and the caller
\* receives the rejection and no list; the stub is therefore called once
\* for each such call, concurrent or later.
C16_ThrowingStubPerCaller ==
  /\ \A c \in DOMAIN clients :
       (Called(c) /\ clients[c].sample = "throws") =>
         /\ ~clients[c].owner
         /\ attempts[clients[c].attempt].sample = "throws"
         /\ attempts[clients[c].attempt].calls = << 0 >>
         /\ MemoGet(memo, MemoKey) # clients[c].attempt
         /\ \A d \in DOMAIN clients :
              (d # c /\ Called(d)) =>
                clients[d].attempt # clients[c].attempt
         /\ Returned(c) =>
              /\ clients[c].outcome = "error"
              /\ clients[c].value = << >>
  /\ Cardinality(AttemptsWith("throws")) =
       Cardinality({ c \in DOMAIN clients :
                       Called(c) /\ clients[c].sample = "throws" })

C16_Witness ==
  \E c, d, e \in DOMAIN clients :
    /\ c # d
    /\ clients[c].stage = "waiting" /\ clients[c].sample = "throws"
    /\ clients[d].stage = "waiting" /\ clients[d].sample = "throws"
    /\ attempts[clients[c].attempt].state = "pending"
    /\ attempts[clients[d].attempt].state = "pending"
    /\ clients[c].attempt # clients[d].attempt
    /\ Returned(e) /\ clients[e].sample = "throws"
    /\ clients[e].outcome = "error"
    /\ clients[e].attempt = 1

\* ------------------------------------------------------------------------
\* Vocabulary of the sampler properties
\* ------------------------------------------------------------------------
Awaiting(c, key) ==
  callers[c].state = "awaiting" /\ keyFor(callers[c].hue) = key

PromiseIs(key, state) == key \in DOMAIN promises /\ promises[key] = state

\* The oracle call for the key fails in this step.
FailsNow(key) ==
  /\ PromiseIs(key, "pending")
  /\ key \in DOMAIN promises' /\ promises'[key] = "rejected"

\* ------------------------------------------------------------------------
\* C17: when the oracle call for a key fails, every get awaiting that key,
\* the one that started the request and those that joined it, is handed
\* the error in that same step, and none is handed a value; a get that is
\* still waiting has its request outstanding at the oracle, and a get that
\* has been handed an outcome can resume, so none hangs.
\* ------------------------------------------------------------------------
C17_FailureReachesAllWaiters ==
  /\ [][\A key \in Hues :
          FailsNow(key) =>
            \A c \in DOMAIN callers :
              Awaiting(c, key) /\ callers[c].outcome = "none"
                => callers'[c].outcome = "error"]_vars
  /\ [](\A c \in DOMAIN callers :
          callers[c].state = "awaiting" =>
            /\ callers[c].outcome = "none" =>
                 PromiseIs(keyFor(callers[c].hue), "pending")
            /\ callers[c].outcome = "value" =>
                 PromiseIs(keyFor(callers[c].hue), "fulfilled")
            /\ PromiseIs(keyFor(callers[c].hue), "rejected") =>
                 callers[c].outcome = "error"
            /\ callers[c].outcome # "none" => ENABLED CallerReturn(c))

C17_Witness ==
  \E c, d \in DOMAIN callers :
    /\ Awaiting(c, 0) /\ callers[c].hue = 0 /\ callers[c].owner
    /\ Awaiting(d, 0) /\ callers[d].hue = 360 /\ ~callers[d].owner
    /\ callers[c].outcome = "error" /\ callers[d].outcome = "error"
    /\ PromiseIs(0, "rejected")
    /\ calls = << 0 >>

\* ------------------------------------------------------------------------
\* C18: a failed oracle call leaves the completed values as they were; the
\* rejected entry stays only until the get that created it resumes, which
\* removes it, so that the key then has neither an in-flight entry nor a
\* value and the next get for it calls the oracle again; an entry that is
\* pending or fulfilled is never removed, so a failure does not take away
\* the entry of a newer request.
\* ------------------------------------------------------------------------
C18_FailureClearsEntry ==
  /\ [][\A key \in Hues : FailsNow(key) => values' = values]_vars
  /\ [][\A c \in DOMAIN callers :
          (/\ callers[c].state = "awaiting" /\ callers[c].owner
           /\ callers[c].outcome = "error"
           /\ callers'[c].state = "idle")
            => /\ keyFor(callers[c].hue) \notin DOMAIN promises'
               /\ keyFor(callers[c].hue) \notin DOMAIN values'
               /\ values' = values]_vars
  /\ [][\A key \in DOMAIN promises :
          promises[key] # "rejected" => key \in DOMAIN promises']_vars
  /\ [][\A c \in DOMAIN callers : \A hue \in TestHues :
          (/\ callers[c].state = "idle"
           /\ Awaiting(c, keyFor(hue))' /\ callers'[c].hue = hue
           /\ keyFor(hue) \notin DOMAIN promises)
            => /\ calls' = Append(calls, normalizeHue(hue))
               /\ PromiseIs(keyFor(hue), "pending")']_vars
  /\ [](\A key \in Hues :
          /\ key \in DOMAIN values <=> PromiseIs(key, "fulfilled")
          /\ PromiseIs(key, "rejected") =>
               \E c \in DOMAIN callers :
                 /\ Awaiting(c, key) /\ callers[c].owner
                 /\ callers[c].outcome = "error")
  /\ [](getKnownHues(values) =
          SetToSortedSeq({ key \in Hues : PromiseIs(key, "fulfilled") }))

C18_Witness ==
  /\ rejections = 1
  /\ calls = << 0, 180, 0 >>
  /\ PromiseIs(0, "fulfilled") /\ PromiseIs(180, "fulfilled")
  /\ getKnownHues(values) = << 0, 180 >>

\* ------------------------------------------------------------------------
\* A streaming run whose consumer may cancel the stream
\* (streamSegmentHueSpace or segmentHueSpaceStream, one run)
\* ------------------------------------------------------------------------
\* reader.cancel() or the abort of the request that reads the response:
\* neither stream is constructed with a cancel callback or a signal, so
\* the stream is closed for its consumer and the run is not told.
ConsumerCancel ==
  /\ kind \in {"apiStream", "libStream"}
  /\ streamState = "open"
  /\ pc # "start"
  /\ streamState' = "cancelled"
  /\ UNCHANGED << inputVars, buildVars, jobVars, hookVars, harnessVars, run, pc, samplerVars, workVars,
                  lastSignature, lastSegments, lastPayload, chunks, result,
                  history >>

CancelInit ==
  /\ fakeRanges \in Scenarios
  /\ saturation \in Saturations
  /\ lightness \in Lightnesses
  /\ \E r \in {1, 3} : FreshRun(r)
  /\ history = << >>
  /\ HarnessIdle
  /\ JobIdle
  /\ HookIdle
  /\ BuildIdle

CancelNext ==
  \/ OracleResolve
  \/ OracleReject
  \/ ConsumerCancel
  \/ ApiStart \/ ApiGrayscale \/ ApiAnchor \/ ApiFinish \/ ApiSkip
  \/ ApiTake \/ ApiPair \/ ApiMid
  \/ LsStart \/ LsGrayscale \/ LsAnchor \/ LsFinish \/ LsSkip \/ LsTake
  \/ LsAfterStart \/ LsAfterEnd \/ LsAfterMid

CancelSpec == CancelInit /\ [][CancelNext]_vars

\* ------------------------------------------------------------------------
\* C19: once the consumer has cancelled a streaming run, the run calls the
\* oracle no more, and the consumer is not shown an error: the stream is
\* never put into its error state after a cancellation, which tells a
\* cancellation from an oracle failure.
\* ------------------------------------------------------------------------
C19_CancelStopsOracleCalls ==
  /\ [][streamState = "cancelled" =>
          /\ calls' = calls
          /\ streamState' = "cancelled"]_vars
  /\ [](streamState = "errored" => pc = "failed")

\* ------------------------------------------------------------------------
\* The four entry points on an oracle that answers every request: no
\* request fails, every pending request is eventually answered and every
\* continuation that can run eventually runs.
\* ------------------------------------------------------------------------
AnsweringNext ==
  \/ OracleResolve
  \/ ApiStart \/ ApiGrayscale \/ ApiAnchor \/ ApiFinish \/ ApiSkip
  \/ ApiTake \/ ApiPair \/ ApiMid
  \/ LsStart \/ LsGrayscale \/ LsAnchor \/ LsFinish \/ LsSkip \/ LsTake
  \/ LsAfterStart \/ LsAfterEnd \/ LsAfterMid
  \/ LcStart \/ LcGrayscale \/ LcAnchor \/ LcBase \/ LcEnter
  \/ LcAfterStart \/ LcAfterEnd \/ LcAfterMid \/ LcAfterLeft
  \/ LcAfterRight \/ LcFinish
  \/ NextRun

TerminationSpec ==
  Init /\ [][AnsweringNext]_vars /\ WF_vars(AnsweringNext)

\* ------------------------------------------------------------------------
\* C20: on an oracle that answers every request every run returns: the
\* four entry points all finish, with an empty work list.  The reasons
\* hold step by step: a range put on the queue, the stack or the recursion
\* is at least one degree wide and strictly narrower than the range it
\* was split from, and a range no wider than MIN_SPAN is discarded without
\* an oracle call.
\* ------------------------------------------------------------------------
Span(range) == range.endHue - range.startHue

C20_EveryRunTerminates ==
  /\ <>(pc = "end" /\ Len(history) = Len(RunKinds))
  /\ [](pc = "done" => queue = << >> /\ stack = << >> /\ frames = << >>)
  /\ [][Len(queue') > Len(queue) =>
          \A i \in (Len(queue) + 1) .. Len(queue') :
            (Len(queue) = 0 /\ Span(queue'[i]) = FULL_CIRCLE)
            \/ (Span(queue'[i]) >= 1 /\ Span(queue'[i]) < Span(cur))]_vars
  /\ [][Len(stack') > Len(stack) =>
          \A i \in (Len(stack) + 1) .. Len(stack') :
            (Len(stack) = 0 /\ Span(stack'[i]) = FULL_CIRCLE)
            \/ (Span(stack'[i]) >= 1 /\ Span(stack'[i]) < Span(cur))]_vars
  /\ [][Len(frames') > Len(frames) =>
          \/ Len(frames) = 0 /\ Span(Last(frames')) = FULL_CIRCLE
          \/ /\ Len(frames) > 0
             /\ Span(Last(frames')) >= 1
             /\ Span(Last(frames')) < Span(Top)]_vars
  /\ [][(/\ pc = "loop" /\ queue # << >>
         /\ Span(Head(queue)) <= MIN_SPAN)
          => queue' = Tail(queue) /\ calls' = calls /\ pc' = "loop"]_vars
  /\ [][(/\ pc = "loop" /\ stack # << >>
         /\ Span(Last(stack)) <= MIN_SPAN)
          => stack' = Front(stack) /\ calls' = calls /\ pc' = "loop"]_vars
  /\ [][(/\ pc = "recurse" /\ frames # << >> /\ Top.stage = "enter"
         /\ Span(Top) <= MIN_SPAN)
          => frames' = Front(frames) /\ calls' = calls]_vars

C20_Witness ==
  /\ pc = "end" /\ Len(history) = Len(RunKinds)
  /\ fakeRanges = RedGreenBlue
  /\ \A i \in DOMAIN history : history[i].ncalls >= 15
  /\ queue = << >> /\ stack = << >> /\ frames = << >>

\* ------------------------------------------------------------------------
\* The final list as a function of the inputs alone
\* ------------------------------------------------------------------------
\* The hues the subdivision of [s, e] asks for, read off the oracle with no
\* reference to a run: the three hues of the range and, when the three
\* names are not all the same, those of its two halves.
RECURSIVE DemandedBy(_, _)
DemandedBy(s, e) ==
  IF e - s <= MIN_SPAN THEN {}
  ELSE LET m == Midpoint(s, e)
       IN  { s % FULL_CIRCLE, e % FULL_CIRCLE, m % FULL_CIRCLE }
             \cup IF OracleName(s) = OracleName(m) /\ OracleName(m) = OracleName(e)
                  THEN {}
                  ELSE DemandedBy(s, m) \cup DemandedBy(m, e)

Demanded == {0} \cup DemandedBy(0, FULL_CIRCLE)

OracleValues == [h \in Demanded |-> sample(fakeRanges, h)]

\* The list createSegments must return for the inputs at hand.
DeterminedFinal ==
  IF Degenerate THEN << Seg(0, FULL_CIRCLE, sample(fakeRanges, 0)) >>
  ELSE dedupeSegments(mergeSegments(BuildRaw(OracleValues, SetToSortedSeq(Demanded))))

IsApiKind(k) == k \in {"apiStream", "apiCollect"}

\* C21: with a deterministic oracle the final segment list of a run of
\* createSegments is determined by the inputs (oracle, saturation,
\* lightness) alone: every finished run through createSegments, streamed or
\* collected, in whatever order its requests were answered, ends with the
\* list computed from the oracle directly, so two independent runs with the
\* same inputs end with identical lists.
C21_FinalDeterminedByInputs ==
  /\ (IsApi /\ pc = "done") => FinalNow = DeterminedFinal
  /\ \A i \in DOMAIN history :
       IsApiKind(history[i].kind) => history[i].final = DeterminedFinal
  /\ \A i, j \in DOMAIN history :
       (IsApiKind(history[i].kind) /\ IsApiKind(history[j].kind))
         => history[i].final = history[j].final

\* Two independent runs of createSegments have finished on an oracle with
\* several names, each after several intermediate snapshots.
C21_Witness ==
  /\ Len(history) >= 2
  /\ IsApiKind(history[1].kind) /\ IsApiKind(history[2].kind)
  /\ ~Degenerate
  /\ Len(history[1].final) >= 3
  /\ history[1].ncalls >= 5

\* ------------------------------------------------------------------------
\* Queue, stack and recursion
\* ------------------------------------------------------------------------
\* Build and merge over the set S of sampled hues.
MergedOf(S) ==
  IF S = {} THEN << >>
  ELSE mergeSegments(BuildRaw([h \in S |-> sample(fakeRanges, h)], SetToSortedSeq(S)))

\* C22: the queue of createSegments, the stack of streamRange and the
\* recursion of subdivideRange sample exactly the same set of hues and so
\* build and merge the same list, whatever the order of discovery; the
\* stack and the recursion return that list, createSegments returns it with
\* duplicate names resolved (dedupeSegments).
C22_SameHuesSameMerged ==
  /\ \A i, j \in DOMAIN history : history[i].sampled = history[j].sampled
  /\ \A i \in DOMAIN history :
       history[i].final = IF IsApiKind(history[i].kind)
                          THEN dedupeSegments(MergedOf(history[i].sampled))
                          ELSE MergedOf(history[i].sampled)
  /\ (pc = "done" /\ history # << >>)
       => /\ Range(calls) = history[1].sampled
          /\ DOMAIN values = history[1].sampled
          /\ MergedNow = MergedOf(history[1].sampled)

\* All four entry points have finished on an oracle that makes the queue and
\* the stack discover the hues in different orders.
C22_Witness ==
  /\ Len(history) = 4
  /\ ~Degenerate
  /\ Cardinality(history[1].sampled) >= 5
  /\ history[1].final # history[3].final

\* ------------------------------------------------------------------------
\* normalizeHue on JavaScript numbers
\* ------------------------------------------------------------------------
\* A JavaScript number is a binary floating-point value: here a whole count
\* of units of 2^-FractionBits whose magnitude has at most Precision
\* significant bits (53 for a double), or one of the three non-finite
\* values.  Whole hues are exact; % is exact (its result is always
\* representable); + rounds to the nearest representable value, ties to
\* the even significand.
FractionBits == 6

Precision == 12

\* Inputs range over [-MaxTurns * 360, MaxTurns * 360].
MaxTurns == 2

RECURSIVE Pow2(_)
Pow2(n) == IF n <= 0 THEN 1 ELSE 2 * Pow2(n - 1)

\* The number 1 in units.
One == Pow2(FractionBits)

Abs(x) == IF x < 0 THEN 0 - x ELSE x

RECURSIVE BitLength(_)
BitLength(n) == IF n = 0 THEN 0 ELSE 1 + BitLength(n \div 2)

\* The spacing of representable values at magnitude x.
Quantum(x) ==
  IF BitLength(Abs(x)) <= Precision THEN 1
  ELSE Pow2(BitLength(Abs(x)) - Precision)

IsDouble(x) == Abs(x) % Quantum(x) = 0

\* Round to nearest, ties to even.
RoundToDouble(x) ==
  LET a == Abs(x)
      q == Quantum(a)
      lo == (a \div q) * q
      r == a - lo
      mag == IF 2 * r < q THEN lo
             ELSE IF 2 * r > q THEN lo + q
             ELSE IF (lo \div q) % 2 = 0 THEN lo ELSE lo + q
  IN  IF x < 0 THEN 0 - mag ELSE mag

FloatAdd(a, b) == RoundToDouble(a + b)

Finite(n) == [kind |-> "finite", units |-> n]

NonFinite == { [kind |-> k, units |-> 0] : k \in {"NaN", "Infinity", "-Infinity"} }

\* normalizeHue of shared/color-utils.ts and lib/types.server.ts (the same
\* text) on a number: a non-finite hue gives 0; wrapped = hue % 360 cannot
\* be NaN for a finite hue; a negative wrapped is answered by wrapped + 360.
\* The value is in units.
normalizeHueNumber(hue) ==
  IF hue.kind # "finite" THEN 0
  ELSE LET wrapped == JsRem(hue.units, FULL_CIRCLE * One)
       IN  IF wrapped < 0 THEN FloatAdd(wrapped, FULL_CIRCLE * One) ELSE wrapped

Numbers ==
  { Finite(n) : n \in { m \in (0 - MaxTurns * FULL_CIRCLE * One) .. (MaxTurns * FULL_CIRCLE * One) :
                          IsDouble(m) } }
    \cup NonFinite

NormalizeInit ==
  /\ fakeRanges = Uniform
  /\ saturation = 60
  /\ lightness = 50
  /\ run = 1
  /\ pc = "fn"
  /\ promises = << >>
  /\ values = << >>
  /\ calls = << >>
  /\ queue = << >>
  /\ stack = << >>
  /\ frames = << >>
  /\ cur = NoRange
  /\ fresh = FALSE
  /\ lastSignature = << >>
  /\ lastSegments = << >>
  /\ lastPayload = null
  /\ chunks = << >>
  /\ streamState = "none"
  /\ result = << >>
  /\ history = << >>
  /\ callers = << >>
  /\ rejections = 0
  /\ fnIn \in Numbers
  /\ fnOut = << >>
  /\ MemoIdle
  /\ JobIdle
  /\ HookIdle
  /\ BuildIdle

ApplyNormalizeHue ==
  /\ pc = "fn"
  /\ fnOut' = normalizeHueNumber(fnIn)
  /\ pc' = "fnDone"
  /\ UNCHANGED << inputVars, buildVars, jobVars, hookVars, run, samplerVars, workVars, emitVars, result,
                  history, callers, rejections, fnIn, memoVars >>

NormalizeSpec == NormalizeInit /\ [][ApplyNormalizeHue]_vars

\* The whole turns k for which hue + 360 * k is again a number.
Shifts(hue) ==
  { k \in (0 - MaxTurns) .. MaxTurns :
      hue.kind = "finite" /\ IsDouble(hue.units + k * FULL_CIRCLE * One) }

\* C23: normalizeHue answers every number, negative ones and those of 360
\* and more included, with a value in [0, 360); normalizing the answer
\* again changes nothing; and a hue moved by a whole number of turns has
\* the same answer.
C23_NormalizeHueLaws ==
  pc = "fnDone" =>
    /\ 0 <= fnOut /\ fnOut < FULL_CIRCLE * One
    /\ normalizeHueNumber(Finite(fnOut)) = fnOut
    /\ \A k \in Shifts(fnIn) :
         normalizeHueNumber(Finite(fnIn.units + k * FULL_CIRCLE * One)) = fnOut

\* The three laws hold of every whole hue: the sum wrapped + 360 is then
\* exact.
C23_WholeHues ==
  (pc = "fnDone" /\ fnIn.kind = "finite" /\ fnIn.units % One = 0) =>
    /\ 0 <= fnOut /\ fnOut < FULL_CIRCLE * One
    /\ normalizeHueNumber(Finite(fnOut)) = fnOut
    /\ \A k \in Shifts(fnIn) :
         normalizeHueNumber(Finite(fnIn.units + k * FULL_CIRCLE * One)) = fnOut

\* ------------------------------------------------------------------------
\* The hues the oracle sees
\* ------------------------------------------------------------------------
\* The ranges waiting in the work list of the running entry point.
Waiting ==
  Range(queue) \cup Range(stack)
    \cup { WorkItem(frames[i].startHue, frames[i].endHue) : i \in DOMAIN frames }

\* C24: every hue handed to the oracle is a whole number of [0, 360): the
\* ranges of the work list keep their unnormalized bounds, 360 included,
\* but the end 360 reaches the oracle as hue 0 or not at all, and each
\* midpoint is a whole hue strictly inside its range.
C24_OracleHuesWholeInCircle ==
  /\ \A i \in DOMAIN calls : calls[i] \in Hues
  /\ \A i \in DOMAIN history : history[i].sampled \subseteq Hues
  /\ \A w \in Waiting :
       /\ w.startHue \in Hues
       /\ w.endHue \in 1 .. FULL_CIRCLE
       /\ w.startHue < w.endHue
  /\ pc \in {"pair", "mid", "sStart", "sEnd", "sMid"}
       => /\ cur.startHue < cur.midpoint /\ cur.midpoint < cur.endHue
          /\ cur.endHue <= FULL_CIRCLE

\* A range that ends at the bookkeeping hue 360 has had its three hues
\* requested.
C24_Witness ==
  /\ pc \in {"mid", "sMid"}
  /\ cur.endHue = FULL_CIRCLE
  /\ cur.startHue > 0
  /\ Fulfilled(cur.midpoint)
  /\ Len(calls) >= 4

\* ------------------------------------------------------------------------
\* The cache job that replays the sampler (main, processPair,
\* sampleHueSpace, subdivideRange of the build script) for the pair
\* (saturation, lightness), and the application reading the database
\* ------------------------------------------------------------------------
\* The rows the colors table holds for the pair before the job starts: rows
\* of earlier job runs on the same oracle.
InitialRowSets == { {}, {0}, {0, 180}, {90, 270}, 0 .. (FULL_CIRCLE - 1) }

RowsOf(S) == [h \in S |-> sample(fakeRanges, h)]

JobState == [promises |-> promises, calls |-> calls, requests |-> requests]

\* Faulty variant of JobGet: the table is not consulted.
JobGetAlwaysFetches(st, hue) ==
  IF keyFor(hue) \in DOMAIN st.promises THEN st
  ELSE [promises |-> SetKey(st.promises, keyFor(hue), "fetching"),
        calls    |-> Append(st.calls, normalizeHue(hue)),
        requests |-> Append(st.requests, normalizeHue(hue))]

\* The job's AdaptiveSampler.get with processPair's fetcher, up to the
\* fetcher's first await: an existing promise is returned; otherwise the
\* row is selected and either reused or fetchColor is called.
JobGet(st, hue) ==
  IF keyFor(hue) \in DOMAIN st.promises THEN st
  ELSE IF normalizeHue(hue) \in DOMAIN rows
       THEN [promises |-> SetKey(st.promises, keyFor(hue), "row"),
             calls    |-> Append(st.calls, normalizeHue(hue)),
             requests |-> st.requests]
       ELSE [promises |-> SetKey(st.promises, keyFor(hue), "fetching"),
             calls    |-> Append(st.calls, normalizeHue(hue)),
             requests |-> Append(st.requests, normalizeHue(hue))]

\* Everything a job step leaves alone besides the sampler and the table.
jobFrame == << inputVars, buildVars, hookVars, run, queue, stack, cur, fresh, emitVars, result,
               callers, fnIn, fnOut, memoVars, cacheMisses, scan, tasks >>

\* The fetcher returns the row it selected.
JobReuse ==
  \E key \in DOMAIN promises :
    /\ promises[key] = "row"
    /\ promises' = [promises EXCEPT ![key] = "fulfilled"]
    /\ values' = SetKey(values, key, rows[key])
    /\ UNCHANGED << jobFrame, pc, calls, frames, rows, requests, rejections, history >>

\* fetchColor answers: the row is inserted and the color returned.
JobFetched ==
  \E key \in DOMAIN promises :
    /\ promises[key] = "fetching"
    /\ promises' = [promises EXCEPT ![key] = "fulfilled"]
    /\ rows' = SetKey(rows, key, sample(fakeRanges, key))
    /\ values' = SetKey(values, key, sample(fakeRanges, key))
    /\ UNCHANGED << jobFrame, pc, calls, frames, requests, rejections, history >>

\* The hues at which the network may fail the job.
FailingHues == {0, 180}

\* fetchColor gives up after its retries: the job ends with the error.
JobFetchFails ==
  \E key \in DOMAIN promises \cap FailingHues :
    /\ promises[key] = "fetching"
    /\ rejections < MaxRejections
    /\ rejections' = rejections + 1
    /\ promises' = RemoveKey(promises, key)
    /\ pc' = "jobFailed"
    /\ UNCHANGED << jobFrame, values, calls, frames, rows, requests, history >>

\* The script is started again on the table the failed run left behind.
JobRestart ==
  /\ pc = "jobFailed"
  /\ pc' = "jobStart"
  /\ promises' = << >>
  /\ values' = << >>
  /\ calls' = << >>
  /\ frames' = << >>
  /\ UNCHANGED << jobFrame, rows, requests, rejections, history >>

\* sampleHueSpace: sampler.get(0) in either branch.
JobStart ==
  /\ pc = "jobStart"
  /\ LET st == JobGet(JobState, 0)
     IN  /\ promises' = st.promises
         /\ calls' = st.calls
         /\ requests' = st.requests
  /\ pc' = IF Degenerate THEN "jobGray" ELSE "jobAnchor"
  /\ UNCHANGED << jobFrame, values, frames, rows, rejections, history >>

JobGrayscale ==
  /\ pc = "jobGray" /\ Fulfilled(0)
  /\ pc' = "jobDone"
  /\ UNCHANGED << jobFrame, samplerVars, frames, rows, requests, rejections, history >>

JobAnchor ==
  /\ pc = "jobAnchor" /\ Fulfilled(0)
  /\ frames' = << Frame(0, FULL_CIRCLE, "enter") >>
  /\ pc' = "jobRecurse"
  /\ UNCHANGED << jobFrame, samplerVars, rows, requests, rejections, history >>

JobBase ==
  /\ pc = "jobRecurse" /\ frames # << >>
  /\ Top.stage = "enter"
  /\ Top.endHue - Top.startHue <= MIN_SPAN
  /\ frames' = Front(frames)
  /\ UNCHANGED << jobFrame, pc, samplerVars, rows, requests, rejections, history >>

JobEnter ==
  /\ pc = "jobRecurse" /\ frames # << >>
  /\ Top.stage = "enter"
  /\ Top.endHue - Top.startHue > MIN_SPAN
  /\ LET st == JobGet(JobState, Top.startHue)
     IN  /\ promises' = st.promises
         /\ calls' = st.calls
         /\ requests' = st.requests
  /\ frames' = SetStage("start")
  /\ UNCHANGED << jobFrame, pc, values, rows, rejections, history >>

JobAfterStart ==
  /\ pc = "jobRecurse" /\ frames # << >>
  /\ Top.stage = "start" /\ Fulfilled(Top.startHue)
  /\ LET st == JobGet(JobState, Top.endHue)
     IN  /\ promises' = st.promises
         /\ calls' = st.calls
         /\ requests' = st.requests
  /\ frames' = SetStage("end")
  /\ UNCHANGED << jobFrame, pc, values, rows, rejections, history >>

JobAfterEnd ==
  /\ pc = "jobRecurse" /\ frames # << >>
  /\ Top.stage = "end" /\ Fulfilled(Top.endHue)
  /\ LET st == JobGet(JobState, TopMid % FULL_CIRCLE)
     IN  /\ promises' = st.promises
         /\ calls' = st.calls
         /\ requests' = st.requests
  /\ frames' = SetStage("mid")
  /\ UNCHANGED << jobFrame, pc, values, rows, rejections, history >>

\* Faulty variant of JobAfterMid: the names of the two ends decide alone.
JobAfterMidEndsOnly ==
  /\ pc = "jobRecurse" /\ frames # << >>
  /\ Top.stage = "mid" /\ Fulfilled(TopMid % FULL_CIRCLE)
  /\ frames' = IF values[keyFor(Top.startHue)].name = values[keyFor(Top.endHue)].name
               THEN Front(frames)
               ELSE Append(SetStage("left"),
                           Frame(Top.startHue, TopMid, "enter"))
  /\ UNCHANGED << jobFrame, pc, samplerVars, rows, requests, rejections, history >>

JobAfterMid ==
  /\ pc = "jobRecurse" /\ frames # << >>
  /\ Top.stage = "mid" /\ Fulfilled(TopMid % FULL_CIRCLE)
  /\ frames' = IF /\ values[keyFor(Top.startHue)].name
                       = values[keyFor(TopMid % FULL_CIRCLE)].name
                  /\ values[keyFor(TopMid % FULL_CIRCLE)].name
                       = values[keyFor(Top.endHue)].name
               THEN Front(frames)
               ELSE Append(SetStage("left"),
                           Frame(Top.startHue, TopMid, "enter"))
  /\ UNCHANGED << jobFrame, pc, samplerVars, rows, requests, rejections, history >>

JobAfterLeft ==
  /\ pc = "jobRecurse" /\ frames # << >>
  /\ Top.stage = "left"
  /\ frames' = Append(SetStage("right"), Frame(TopMid, Top.endHue, "enter"))
  /\ UNCHANGED << jobFrame, pc, samplerVars, rows, requests, rejections, history >>

JobAfterRight ==
  /\ pc = "jobRecurse" /\ frames # << >>
  /\ Top.stage = "right"
  /\ frames' = Front(frames)
  /\ UNCHANGED << jobFrame, pc, samplerVars, rows, requests, rejections, history >>

\* sampleHueSpace has returned: the pair is processed.
JobFinish ==
  /\ pc = "jobRecurse" /\ frames = << >>
  /\ pc' = "jobDone"
  /\ UNCHANGED << jobFrame, samplerVars, frames, rows, requests, rejections, history >>

\* The job is over; the application is switched to the database and the
\* entry points are called one after the other.
JobHandOver ==
  /\ pc = "jobDone"
  /\ history' = << [kind |-> "job", final |-> << >>, snapshots |-> 0,
                    sampled |-> Range(calls), ncalls |-> Len(calls)] >>
  /\ BeginRun(1)
  /\ UNCHANGED << inputVars, buildVars, hookVars, harnessVars, jobVars >>

\* Database mode: the sampler's fetcher is answered from the table by
\* getColorFromDatabase; a hue without a row is a miss, answered by the
\* color API instead.
DatabaseResolve ==
  \E key \in DOMAIN promises :
    /\ promises[key] = "pending"
    /\ promises' = [promises EXCEPT ![key] = "fulfilled"]
    /\ IF key \in DOMAIN rows
       THEN /\ values' = SetKey(values, key, rows[key])
            /\ UNCHANGED cacheMisses
       ELSE /\ values' = SetKey(values, key, sample(fakeRanges, key))
            /\ cacheMisses' = Append(cacheMisses, key)
    /\ UNCHANGED << inputVars, buildVars, hookVars, harnessVars, run, pc, calls, workVars, emitVars,
                    result, history, rows, requests, scan, tasks >>

\* ------------------------------------------------------------------------
\* scripts/build-color-cache.mjs: the job that caches every hue of
\* hueStart .. hueEnd for the pair, at most `concurrency` fetches at a time
\* ------------------------------------------------------------------------
\* COLOR_CACHE_CONCURRENCY, COLOR_CACHE_HUE_START and COLOR_CACHE_HUE_END as
\* set for the modelled job.
ScanConcurrency == 2

hueStart == 0

ScanHueEnd == 3

\* The rows of hueStart .. hueEnd the table may hold before the job starts.
ScanRowSets == { {}, {0}, {1, 2}, 0 .. (FULL_CIRCLE - 1) }

Task(h, state) == [hue |-> h, state |-> state]

\* The counter `active`: the tasks between their first line and their
\* finally block.
active == Cardinality({ i \in DOMAIN tasks : tasks[i].state = "running" })

Settled(task) == task.state # "running"

\* What a step of this job leaves alone besides its own state.
scanFrame == << inputVars, buildVars, hookVars, run, samplerVars, workVars, emitVars, result, history,
                callers, fnIn, fnOut, memoVars, cacheMisses >>

\* enqueue(hue, saturation, lightness) up to its first await or its return:
\* a hue with a row is skipped; with `concurrency` tasks active the call
\* waits; otherwise the task starts and calls fetchColor.
ScanEnqueue ==
  /\ pc = "scan" /\ scan <= ScanHueEnd
  /\ IF scan \in DOMAIN rows
     THEN /\ scan' = scan + 1
          /\ UNCHANGED << pc, tasks, requests >>
     ELSE IF active >= ScanConcurrency
     THEN /\ pc' = "scanWait"
          /\ UNCHANGED << scan, tasks, requests >>
     ELSE /\ tasks' = Append(tasks, Task(scan, "running"))
          /\ requests' = Append(requests, scan)
          /\ scan' = scan + 1
          /\ UNCHANGED pc
  /\ UNCHANGED << scanFrame, rows, rejections >>

\* Promise.race(tasks) has settled: a rejection ends the job; otherwise the
\* settled tasks are spliced out and, with a free slot, the task starts.
ScanAfterRace ==
  /\ pc = "scanWait"
  /\ \E i \in DOMAIN tasks : Settled(tasks[i])
  /\ IF \E i \in DOMAIN tasks : tasks[i].state = "rejected"
     THEN /\ pc' = "scanFailed"
          /\ UNCHANGED << scan, tasks, requests >>
     ELSE IF active >= ScanConcurrency
     THEN /\ tasks' = SelectSeq(tasks, LAMBDA t : ~Settled(t))
          /\ UNCHANGED << pc, scan, requests >>
     ELSE /\ tasks' = Append(SelectSeq(tasks, LAMBDA t : ~Settled(t)),
                             Task(scan, "running"))
          /\ requests' = Append(requests, scan)
          /\ scan' = scan + 1
          /\ pc' = "scan"
  /\ UNCHANGED << scanFrame, rows, rejections >>

\* fetchColor answers a task: insert.run, then the finally block.
ScanTaskFetched ==
  \E i \in DOMAIN tasks :
    /\ tasks[i].state = "running"
    /\ rows' = SetKey(rows, tasks[i].hue, sample(fakeRanges, tasks[i].hue))
    /\ tasks' = [tasks EXCEPT ![i].state = "settled"]
    /\ UNCHANGED << scanFrame, pc, scan, requests, rejections >>

\* fetchColor gives up after its retries: the task rejects.
ScanTaskFails ==
  \E i \in DOMAIN tasks :
    /\ tasks[i].state = "running"
    /\ rejections < MaxRejections
    /\ rejections' = rejections + 1
    /\ tasks' = [tasks EXCEPT ![i].state = "rejected"]
    /\ UNCHANGED << scanFrame, pc, scan, rows, requests >>

\* The loops are over: await Promise.all(tasks).
ScanDrain ==
  /\ pc = "scan" /\ scan > ScanHueEnd
  /\ \/ /\ \E i \in DOMAIN tasks : tasks[i].state = "rejected"
        /\ pc' = "scanFailed"
     \/ /\ \A i \in DOMAIN tasks : tasks[i].state = "settled"
        /\ pc' = "scanDone"
  /\ UNCHANGED << scanFrame, scan, tasks, rows, requests, rejections >>

\* The failed job's remaining fetches are over and the script is started
\* again on the table it left behind.
ScanRestart ==
  /\ pc = "scanFailed"
  /\ active = 0
  /\ pc' = "scan"
  /\ scan' = hueStart
  /\ tasks' = << >>
  /\ UNCHANGED << scanFrame, rows, requests, rejections >>

CacheInit ==
  /\ fakeRanges \in Scenarios
  /\ saturation \in Saturations
  /\ lightness \in Lightnesses
  /\ run = 1
  /\ pc \in {"jobStart", "scan"}
  /\ promises = << >>
  /\ values = << >>
  /\ calls = << >>
  /\ queue = << >>
  /\ stack = << >>
  /\ frames = << >>
  /\ cur = NoRange
  /\ fresh = FALSE
  /\ lastSignature = << >>
  /\ lastSegments = << >>
  /\ lastPayload = null
  /\ chunks = << >>
  /\ streamState = "open"
  /\ result = << >>
  /\ history = << >>
  /\ HarnessIdle
  /\ \E S \in (IF pc = "scan" THEN ScanRowSets ELSE InitialRowSets) : rows = RowsOf(S)
  /\ requests = << >>
  /\ cacheMisses = << >>
  /\ scan = hueStart
  /\ tasks = << >>
  /\ HookIdle
  /\ BuildIdle

CacheNext ==
  \/ JobReuse \/ JobFetched \/ JobFetchFails \/ JobRestart
  \/ JobStart \/ JobGrayscale \/ JobAnchor \/ JobBase \/ JobEnter
  \/ JobAfterStart \/ JobAfterEnd \/ JobAfterMid \/ JobAfterLeft
  \/ JobAfterRight \/ JobFinish \/ JobHandOver
  \/ ScanEnqueue \/ ScanAfterRace \/ ScanTaskFetched \/ ScanTaskFails
  \/ ScanDrain \/ ScanRestart
  \/ DatabaseResolve
  \/ ApiStart \/ ApiGrayscale \/ ApiAnchor \/ ApiFinish \/ ApiSkip
  \/ ApiTake \/ ApiPair \/ ApiMid
  \/ LsStart \/ LsGrayscale \/ LsAnchor \/ LsFinish \/ LsSkip \/ LsTake
  \/ LsAfterStart \/ LsAfterEnd \/ LsAfterMid
  \/ LcStart \/ LcGrayscale \/ LcAnchor \/ LcBase \/ LcEnter
  \/ LcAfterStart \/ LcAfterEnd \/ LcAfterMid \/ LcAfterLeft
  \/ LcAfterRight \/ LcFinish
  \/ NextRun

CacheSpec == CacheInit /\ [][CacheNext]_vars

\* The job has run to its end and the application is at work.
JobComplete == history # << >> /\ history[1].kind = "job"

C26_ExistingRowsReused ==
  [][ /\ \A h \in DOMAIN rows : h \in DOMAIN rows' /\ rows'[h] = rows[h]
      /\ requests' # requests
           => /\ Len(requests') = Len(requests) + 1
              /\ SubSeq(requests', 1, Len(requests)) = requests
              /\ Last(requests') \notin DOMAIN rows
              /\ \/ Last(requests') \in Range(calls')
                 \/ \E i \in DOMAIN tasks' : tasks'[i].hue = Last(requests')
    ]_vars

\* A job that failed was started again and has finished: it reused rows
\* and fetched only what was missing.
C26_Witness ==
  /\ pc \in {"jobDone", "scanDone"}
  /\ rejections > 0
  /\ Len(requests) >= 2
  /\ Cardinality(DOMAIN rows) > Cardinality(Range(requests))

\* ------------------------------------------------------------------------
\* hooks/useStreamedSegments.ts: the hook of a mounted component
\* ------------------------------------------------------------------------
\* The most lines one response delivers.
MaxLines == 2

initialSegmentsOfTest == << Seg(0, 90, [name |-> << "C", "o", "r", "a", "l" >>, h |-> 0]) >>

nextSegmentsOfTest == << Seg(120, 240, [name |-> Green, h |-> 120]) >>

\* The segment lists a loader or a line of the stream may carry.
HookLists == { << >>, initialSegmentsOfTest, nextSegmentsOfTest }

Searches == { "?s=40&l=40", "?s=70&l=20" }

NoStream == << >>

\* The response the effect reads: its search string, whether the effect's
\* controller was aborted, whether the body is at its end, and the payloads
\* of the lines read so far.
Fetching(search) ==
  [search |-> search, aborted |-> FALSE, done |-> FALSE, delivered |-> << >>]

Abort(s) == IF s = NoStream THEN s ELSE [s EXCEPT !.aborted = TRUE]

Reading == stream # NoStream /\ ~stream.aborted /\ ~stream.done

\* What a step of the hook leaves alone.
hookFrame == << inputVars, buildVars, jobVars, run, pc, samplerVars, workVars, emitVars, result,
                history, harnessVars >>

\* The component is rendered with a navigation that has left the idle state
\* for a location: the previous effect is cleaned up (its controller
\* aborted), then the effect sets hasStreamedPartial to false and starts
\* streamSegments.
HookNavigate ==
  \E state \in {"loading", "submitting"}, search \in Searches :
    /\ navigation # [state |-> state, location |-> search]
    /\ navigation' = [state |-> state, location |-> search]
    /\ hasStreamedPartial' = FALSE
    /\ stream' = Fetching(search)
    /\ UNCHANGED << hookFrame, initialSegments, segmentsState >>

\* The navigation is over: the component is rendered with an idle
\* navigation and the loader's new initialSegments.  The cleanup aborts the
\* controller, the second effect returns early and the first effect stores
\* initialSegments.
HookSettle ==
  \E loaded \in HookLists :
    /\ navigation.state # "idle"
    /\ navigation' = [state |-> "idle", location |-> ""]
    /\ initialSegments' = loaded
    /\ segmentsState' = loaded
    /\ hasStreamedPartial' = FALSE
    /\ stream' = Abort(stream)
    /\ UNCHANGED hookFrame

\* reader.read() answers with a chunk that ends a line: the payload is
\* parsed and stored.
HookLine ==
  \E payload \in HookLists \ { << >> } :
    /\ Reading
    /\ Len(stream.delivered) < MaxLines
    /\ segmentsState' = payload
    /\ hasStreamedPartial' = TRUE
    /\ stream' = [stream EXCEPT !.delivered = Append(@, payload)]
    /\ UNCHANGED << hookFrame, initialSegments, navigation >>

\* reader.read() answers done, or fetch or read fails: streamSegments
\* returns and the state is left as it is.
HookStreamEnds ==
  /\ Reading
  /\ stream' = [stream EXCEPT !.done = TRUE]
  /\ UNCHANGED << hookFrame, initialSegments, navigation, segmentsState, hasStreamedPartial >>

HookInit ==
  /\ fakeRanges = Uniform
  /\ saturation = 60
  /\ lightness = 50
  /\ run = 1
  /\ pc = "hook"
  /\ promises = << >>
  /\ values = << >>
  /\ calls = << >>
  /\ queue = << >>
  /\ stack = << >>
  /\ frames = << >>
  /\ cur = NoRange
  /\ fresh = FALSE
  /\ lastSignature = << >>
  /\ lastSegments = << >>
  /\ lastPayload = null
  /\ chunks = << >>
  /\ streamState = "none"
  /\ result = << >>
  /\ history = << >>
  /\ HarnessIdle
  /\ JobIdle
  /\ BuildIdle
  /\ initialSegments \in HookLists
  /\ navigation = [state |-> "idle", location |-> ""]
  /\ segmentsState = initialSegments
  /\ hasStreamedPartial = FALSE
  /\ stream = NoStream

HookNext == HookNavigate \/ HookSettle \/ HookLine \/ HookStreamEnds

HookSpec == HookInit /\ [][HookNext]_vars

\* C27: once a navigation has begun and until the new stream delivers its
\* first line, the hook shows no segments and hasStreamedPartial is false;
\* once the new stream has delivered a line, the segments are those of its
\* latest line and hasStreamedPartial is true.
C27_NavigationClearsSegments ==
  (navigation.state # "idle" /\ stream # NoStream /\ ~stream.aborted)
    => IF stream.delivered = << >>
       THEN segmentsState = << >> /\ hasStreamedPartial = FALSE
       ELSE segmentsState = Last(stream.delivered) /\ hasStreamedPartial = TRUE

\* What the hook does do: the flag is reset by the navigation and the
\* segments are kept until a line arrives.
C27_FlagResetSegmentsKept ==
  [][ /\ (navigation' # navigation /\ navigation'.state # "idle")
           => /\ hasStreamedPartial' = FALSE
              /\ segmentsState' = segmentsState
      /\ (stream # NoStream /\ stream' # NoStream
            /\ Len(stream'.delivered) = Len(stream.delivered) + 1)
           => /\ segmentsState' = Last(stream'.delivered)
              /\ hasStreamedPartial' = TRUE
    ]_vars

\* ------------------------------------------------------------------------
\* The anchor sample
\* ------------------------------------------------------------------------
\* The run has taken a range from its work list or entered subdivideRange.
WorkBegun ==
  \/ cur # NoRange
  \/ \E i \in DOMAIN frames : frames[i].stage # "enter"
  \/ pc \in {"pair", "mid", "sStart", "sEnd", "sMid"}

\* C28: in every run the first hue handed to the oracle is 0, and its
\* answer is in before a range is taken from the work list and before any
\* other hue is requested.
C28_AnchorFirst ==
  /\ calls # << >> => calls[1] = 0
  /\ (WorkBegun \/ Len(calls) >= 2) => (Fulfilled(0) /\ Cached(0))
  /\ \A i \in DOMAIN history : history[i].ncalls >= 1

\* A run is at work on a range other than the whole circle.
C28_Witness ==
  /\ WorkBegun
  /\ Len(calls) >= 3
  /\ cur.startHue > 0
  /\ calls[1] = 0

\* ------------------------------------------------------------------------
\* Parent and child spans
\* ------------------------------------------------------------------------
SpanOf(w) == w.endHue - w.startHue

\* The ranges a step adds to the work list, each with the range it was
\* split from: the two halves appended to the queue or the stack, or the
\* half subdivideRange is called with.
SplitPairs ==
  (IF Len(queue') = Len(queue) + 2
   THEN { << queue'[Len(queue') - 1], cur >>, << queue'[Len(queue')], cur >> }
   ELSE {})
  \cup
  (IF Len(stack') = Len(stack) + 2
   THEN { << stack'[Len(stack') - 1], cur >>, << stack'[Len(stack')], cur >> }
   ELSE {})
  \cup
  (IF Len(frames') = Len(frames) + 1 /\ frames # << >>
   THEN { << frames'[Len(frames')], frames[Len(frames)] >> }
   ELSE {})

\* C29 as stated: each of the two ranges a split produces has a span of at
\* most half the span of the range that was split.
C29_ChildAtMostHalf ==
  [][ \A p \in SplitPairs : 2 * SpanOf(p[1]) <= SpanOf(p[2]) ]_vars

\* C29 (amended): each of the two ranges a split produces has a span of at
\* most half the parent's span rounded up, (span + 1) / 2 for an odd span,
\* which is less than the parent's span; the two spans add up to it.
C29_ChildAtMostHalfRoundedUp ==
  [][ /\ \A p \in SplitPairs :
           /\ 2 * SpanOf(p[1]) <= SpanOf(p[2]) + 1
           /\ 1 <= SpanOf(p[1]) /\ SpanOf(p[1]) < SpanOf(p[2])
           /\ p[1].startHue = p[2].startHue \/ p[1].endHue = p[2].endHue
      /\ Len(queue') = Len(queue) + 2
           => SpanOf(queue'[Len(queue') - 1]) + SpanOf(queue'[Len(queue')]) = SpanOf(cur)
      /\ Len(stack') = Len(stack) + 2
           => SpanOf(stack'[Len(stack') - 1]) + SpanOf(stack'[Len(stack')]) = SpanOf(cur)
    ]_vars

\* A range of odd span has been split: its left half is the wider one.
C29_Witness ==
  /\ pc = "loop"
  /\ SpanOf(cur) % 2 = 1
  /\ Len(queue) >= 2
  /\ Last(queue) = WorkItem(cur.midpoint, cur.endHue)
  /\ queue[Len(queue) - 1] = WorkItem(cur.startHue, cur.midpoint)
  /\ 2 * (cur.midpoint - cur.startHue) = SpanOf(cur) + 1

\* ------------------------------------------------------------------------
\* Requests in flight
\* ------------------------------------------------------------------------
InFlight == { key \in DOMAIN promises : promises[key] = "pending" }

\* C30 speaks of a range whose start, end and midpoint have not been
\* requested when the range is processed.  No run has such a range: the
\* bounds of every range taken from the queue or the stack, or entered by
\* the recursion, were requested and answered before, so that the midpoint
\* is the only hue a range can add, and no two requests of a run are ever
\* in flight together.
C30_OnlyMidpointIsNew ==
  /\ Cardinality(InFlight) <= 1
  /\ \A w \in Waiting :
       /\ Fulfilled(w.startHue) /\ Fulfilled(w.endHue)
       /\ w.startHue % FULL_CIRCLE # w.endHue % FULL_CIRCLE \/ SpanOf(w) = FULL_CIRCLE
  /\ pc \in {"pair", "mid", "sStart", "sEnd", "sMid"}
       => \/ cur.midpoint % FULL_CIRCLE \in InFlight
          \/ InFlight = {}

\* ------------------------------------------------------------------------
\* Order of the segments of a terminal result
\* ------------------------------------------------------------------------
Ascending(segments) ==
  \A i \in 1 .. (Len(segments) - 1) :
    segments[i].startHue <= segments[i + 1].startHue

\* The terminal results there are: the one of the entry point that has just
\* completed and those of the entry points completed before it.
TerminalResults ==
  { history[i].final : i \in DOMAIN history }
  \cup (IF pc = "done" THEN { FinalNow } ELSE {})

\* C31 as stated: the segments of the terminal result of a completed run
\* appear in ascending order of startHue.
C31_TerminalResultSorted ==
  \A final \in TerminalResults : Ascending(final)

\* C31 (amended): the segments of the terminal result of a completed run
\* appear in ascending order of startHue, except that the fused wrap-around
\* segment (the one with endHue above 360), when there is one, comes first
\* although its startHue is the greatest.
C31_SortedBehindWrapSegment ==
  \A final \in TerminalResults :
    /\ \A i \in DOMAIN final : final[i].endHue > FULL_CIRCLE => i = 1
    /\ IF final # << >> /\ final[1].endHue > FULL_CIRCLE
       THEN /\ Ascending(Tail(final))
            /\ \A i \in 2 .. Len(final) : final[i].startHue < final[1].startHue
       ELSE Ascending(final)

\* A completed run whose result begins with the fused wrap-around segment,
\* ahead of a segment that starts before it.
C31_Witness ==
  /\ pc = "done"
  /\ Len(FinalNow) >= 2
  /\ FinalNow[1].endHue > FULL_CIRCLE
  /\ FinalNow[1].startHue > FinalNow[2].startHue

\* ------------------------------------------------------------------------
\* Shape of the segments of snapshots and results
\* ------------------------------------------------------------------------
\* The snapshots written to the stream of the current entry point.
EmittedSnapshots ==
  { JSONparse(SegmentsEvents(chunks)[i].data) :
      i \in DOMAIN SegmentsEvents(chunks) }

\* The lists a caller gets to see: snapshots, the resolved list and the
\* results of the entry points completed before.
VisibleLists ==
  EmittedSnapshots \cup TerminalResults \cup { result, lastSegments }

\* The segment is the fusion of the arc that begins the circle with the arc
\* that ends it: it starts at a sampled hue above 0, runs through 360 and
\* carries the name the oracle has at hue 0 and at its start.
IsFusedWrap(s) ==
  /\ s.startHue > 0 /\ s.startHue < FULL_CIRCLE
  /\ s.endHue > FULL_CIRCLE
  /\ s.color.name = OracleName(0)
  /\ s.color.name = OracleName(s.startHue)
  /\ s.color.h = 0

\* C32: every segment of every emitted snapshot and of every final result
\* has 0 <= startHue < endHue and endHue - startHue <= 360; a segment with
\* endHue above 360 is the fused wrap-around segment, and a list holds at
\* most one such segment.
C32_SegmentBounds ==
  \A list \in VisibleLists :
    /\ \A i \in DOMAIN list :
         /\ 0 <= list[i].startHue
         /\ list[i].startHue < list[i].endHue
         /\ list[i].endHue - list[i].startHue <= FULL_CIRCLE
         /\ list[i].endHue > FULL_CIRCLE => IsFusedWrap(list[i])
    /\ Cardinality({ i \in DOMAIN list : list[i].endHue > FULL_CIRCLE }) <= 1

\* A snapshot with the fused wrap-around segment has been emitted and the
\* run has completed with it in its result.
C32_Witness ==
  /\ pc = "done"
  /\ \E list \in EmittedSnapshots :
       \E i \in DOMAIN list : list[i].endHue > FULL_CIRCLE
  /\ \E i \in DOMAIN FinalNow :
       /\ FinalNow[i].endHue > FULL_CIRCLE
       /\ FinalNow[i].endHue - FinalNow[i].startHue < FULL_CIRCLE

\* ------------------------------------------------------------------------
\* Snapshots and the samples behind them
\* ------------------------------------------------------------------------
\* The list an entry point of the current kind computes from the completed
\* samples vals.
SnapshotOf(vals) ==
  IF IsApi THEN buildSegmentsFromKnownHues(vals, getKnownHues(vals))
  ELSE buildSegmentsFromSampler(vals)

\* The step has written a snapshot to the stream.
EmitsSnapshot ==
  /\ run' = run
  /\ Len(SegmentsEvents(chunks')) > Len(SegmentsEvents(chunks))

\* C33: within a streaming run the completed samples only grow, the stream
\* is only appended to, and every snapshot is written by the step that
\* resumes after the sample that triggered it, before any other request is
\* answered, and is computed from all the samples completed by then; so no
\* snapshot is computed from fewer samples than an earlier one.
C33_SnapshotsFollowSamples ==
  [][ /\ run' = run =>
           /\ DOMAIN values \subseteq DOMAIN values'
           /\ \A key \in DOMAIN values : values'[key] = values[key]
           /\ Len(chunks) <= Len(chunks')
           /\ SubSeq(chunks', 1, Len(chunks)) = chunks
      /\ EmitsSnapshot =>
           /\ Len(SegmentsEvents(chunks')) = Len(SegmentsEvents(chunks)) + 1
           /\ values' = values
           /\ InFlight = {}
           /\ Last(SegmentsEvents(chunks')).data
                = JSONstringify(SnapshotOf(values))
    ]_vars

\* A stream on which three snapshots have been written, each after one more
\* sample than the one before.
C33_Witness ==
  /\ kind \in {"apiStream", "libStream"}
  /\ Len(SegmentsEvents(chunks)) >= 3
  /\ Cardinality(DOMAIN values) >= 3
  /\ Last(SegmentsEvents(chunks)).data = JSONstringify(SnapshotOf(values))
  /\ SegmentsEvents(chunks)[1].data
       = JSONstringify(<< Seg(0, FULL_CIRCLE, values[0]) >>)

\* ------------------------------------------------------------------------
\* dedupeSegments only drops
\* ------------------------------------------------------------------------
\* out is made of entries of in, each as it is, in the order of in.
IsSubsequence(out, in) ==
  \E at \in [DOMAIN out -> DOMAIN in] :
    /\ \A i \in DOMAIN out : out[i] = in[at[i]]
    /\ \A i, j \in DOMAIN out : i < j => at[i] < at[j]

\* C34: the output of dedupeSegments is a subsequence of its input in the
\* original order, each kept segment unchanged, and dedupeSegments applied
\* to its own output returns the same list.
C34_DedupeOnlyDrops ==
  pc = "fnDone" =>
    /\ IsSubsequence(fnOut, fnIn)
    /\ dedupeSegments(fnOut) = fnOut

\* A segment between two kept ones is dropped: its key has a wider segment
\* earlier in the list, whose bounds stay as they were.
C34_Witness ==
  /\ pc = "fnDone"
  /\ Len(fnIn) = 3
  /\ fnOut = << fnIn[1], fnIn[3] >>
  /\ canonicalizeName(fnIn[2].color.name) = canonicalizeName(fnIn[1].color.name)
  /\ fnIn[2].color.name # fnIn[1].color.name
  /\ fnIn[2].startHue < fnIn[1].startHue

\* ------------------------------------------------------------------------
\* After an oracle failure
\* ------------------------------------------------------------------------
\* A request of the run has failed: the fetcher was called for the hue and
\* get's catch has removed its entry.
FailureObserved ==
  \E i \in DOMAIN calls : keyFor(calls[i]) \notin DOMAIN promises

\* A step of the run that calls the oracle or takes a range from a work
\* list or enters subdivideRange.
ContinuesWork ==
  /\ Next
  /\ \/ calls' # calls
     \/ promises' # promises
     \/ queue' # queue
     \/ stack' # stack
     \/ frames' # frames
     \/ cur' # cur
     \/ chunks' # chunks

\* C35: once a run has observed an oracle failure it has aborted with the
\* error (a stream is in its error state): no request is in flight, no step
\* that requests a hue or takes a range can be taken any more; and no hue,
\* the failed one included, is ever requested a second time.
C35_FailureAborts ==
  /\ \A i, j \in DOMAIN calls : calls[i] = calls[j] => i = j
  /\ FailureObserved =>
       /\ pc = "failed"
       /\ HasStream => streamState = "errored"
       /\ result = << >>
       /\ InFlight = {}
       /\ ~ENABLED ContinuesWork

\* A run has failed at a midpoint while ranges were still on its work list.
C35_Witness ==
  /\ FailureObserved
  /\ pc = "failed"
  /\ Len(calls) >= 3
  /\ queue # << >> \/ stack # << >> \/ Len(frames) >= 2

\* ------------------------------------------------------------------------
\* The complete event of the server-sent-events stream
\* ------------------------------------------------------------------------
CompleteEvents == { i \in DOMAIN chunks : chunks[i].event = "complete" }

\* C36: on the stream of segmentHueSpaceStream the complete event is written
\* exactly once by a run that succeeds, behind every segments event and by
\* the step that closes the stream, so that nothing follows it; a run that
\* fails never writes it.
C36_CompleteOnceAtTheEnd ==
  IsLibStream =>
       /\ Cardinality(CompleteEvents) <= 1
       /\ CompleteEvents # {} <=> streamState = "closed"
       /\ CompleteEvents # {} <=> pc = "done"
       /\ \A i \in CompleteEvents :
            /\ i = Len(chunks)
            /\ \A j \in DOMAIN chunks : chunks[j].event = "segments" => j < i
       /\ pc = "failed" => CompleteEvents = {} /\ streamState = "errored"

\* A successful run: several snapshots, then the complete event, and the
\* stream is closed.
C36_Witness ==
  /\ IsLibStream
  /\ pc = "done"
  /\ streamState = "closed"
  /\ Len(chunks) >= 3
  /\ Last(chunks).event = "complete"
  /\ chunks[Len(chunks) - 1].event = "segments"

\* ------------------------------------------------------------------------
\* scripts/build-color-cache.mjs and the adaptive cache job: fetchColor
\* ------------------------------------------------------------------------
MaxRetryLimit == 3

\* What COLOR_CACHE_RETRY_LIMIT can be parsed to: any integer, and the value
\* is not clamped.  The exhaustive script uses Number.parseInt alone, which
\* can also give NaN; attempt < NaN is false for every attempt, as it is
\* for a negative limit, which stands for it here.
RetryLimits == (0 - 1) .. MaxRetryLimit

\* What one fetch can answer: 0 stands for a rejected fetch (a network
\* error), any other number is the status of the response.
NetworkError == 0

Answers == { NetworkError, 200, 404, 500, 503 }

\* response.ok
Ok(status) == status >= 200 /\ status <= 299

\* One pass through fetchColor from the answer of its fetch: "sleeping"
\* when it is about to call itself again, "thrown" when it raises the
\* error, "returned" when it returns the color.
\* Faulty variant of AfterFetch: every error response is retried.
AfterFetchRetriesAnyStatus(answer, n, limit) ==
  IF answer = NetworkError
  THEN IF n < limit THEN "sleeping" ELSE "thrown"
  ELSE IF ~Ok(answer)
       THEN IF n < limit THEN "sleeping" ELSE "thrown"
       ELSE "returned"

AfterFetch(answer, n, limit) ==
  IF answer = NetworkError
  THEN IF n < limit THEN "sleeping" ELSE "thrown"
  ELSE IF ~Ok(answer)
       THEN IF answer >= 500 /\ n < limit THEN "sleeping" ELSE "thrown"
       ELSE "returned"

fetchFrame == << inputVars, jobVars, hookVars, harnessVars, poolVars, run, pc,
                 samplerVars, workVars, emitVars, result, history >>

\* await fetch(url) settles.
FetchAnswers ==
  \E answer \in Answers :
    /\ fetchState = "fetching"
    /\ responses' = Append(responses, answer)
    /\ fetchState' = AfterFetch(answer, attempt, retryLimit)
    /\ UNCHANGED << fetchFrame, retryLimit, attempt >>

\* await sleep(delay) is over: fetchColor(h, s, l, attempt + 1)
FetchAgain ==
  /\ fetchState = "sleeping"
  /\ attempt' = attempt + 1
  /\ fetchState' = "fetching"
  /\ UNCHANGED << fetchFrame, retryLimit, responses >>

\* fetchColor(h, s, l) has been called and awaits its first fetch.
FetchInit ==
  /\ fakeRanges = Uniform
  /\ saturation = 60
  /\ lightness = 50
  /\ run = 1
  /\ pc = "fetchColor"
  /\ promises = << >>
  /\ values = << >>
  /\ calls = << >>
  /\ queue = << >>
  /\ stack = << >>
  /\ frames = << >>
  /\ cur = NoRange
  /\ fresh = FALSE
  /\ lastSignature = << >>
  /\ lastSegments = << >>
  /\ lastPayload = null
  /\ chunks = << >>
  /\ streamState = "none"
  /\ result = << >>
  /\ history = << >>
  /\ HarnessIdle
  /\ JobIdle
  /\ HookIdle
  /\ PoolIdle
  /\ retryLimit \in RetryLimits
  /\ attempt = 0
  /\ responses = << >>
  /\ fetchState = "fetching"

FetchNext == FetchAnswers \/ FetchAgain

FetchSpec == FetchInit /\ [][FetchNext]_vars

Retried(answer) == answer = NetworkError \/ answer >= 500

\* What C37 says apart from the number of attempts: an attempt is followed
\* by another only after a network error or a status of 500 or more, and
\* only while attempt < retryLimit; any other error response raises the
\* error at once, and so does a failure once the limit is reached.
RetryRules ==
  /\ Len(responses) \in {attempt, attempt + 1}
  /\ \A i \in DOMAIN responses :
       i < Len(responses) => Retried(responses[i]) /\ i - 1 < retryLimit
  /\ fetchState = "fetching" <=> Len(responses) = attempt
  /\ fetchState = "sleeping" <=>
       /\ Len(responses) = attempt + 1
       /\ Retried(Last(responses)) /\ attempt < retryLimit
  /\ fetchState = "thrown" <=>
       /\ Len(responses) = attempt + 1
       /\ ~Ok(Last(responses))
       /\ ~Retried(Last(responses)) \/ attempt >= retryLimit
  /\ fetchState = "returned" <=>
       Len(responses) = attempt + 1 /\ Ok(Last(responses))

\* C37 as stated: fetchColor makes at most retryLimit + 1 attempts for one
\* hue, retries only after a network error or a status >= 500 while
\* attempt < retryLimit, fails at once on any other error response and
\* raises the error once the limit is reached.
C37_AtMostRetryLimitPlusOne ==
  /\ Len(responses) <= retryLimit + 1
  /\ RetryRules

\* C37 (amended): the same with at most retryLimit + 1 attempts for a limit
\* of 0 or more and one attempt for any other limit: the first attempt is
\* made whatever the limit is.
C37_AtMostRetryLimitPlusOneFromZero ==
  /\ Len(responses) <= (IF retryLimit > 0 THEN retryLimit ELSE 0) + 1
  /\ attempt <= (IF retryLimit > 0 THEN retryLimit ELSE 0)
  /\ RetryRules

\* The limit is reached after a network error and a 503, and the third
\* failure is raised.
C37_Witness ==
  /\ retryLimit = 2
  /\ responses = << NetworkError, 503, 500 >>
  /\ attempt = 2
  /\ fetchState = "thrown"

\* ------------------------------------------------------------------------
\* The adaptive cache job: main's worker pool
\* ------------------------------------------------------------------------
MaxConcurrency == 2

MaxLightnessEnd == 1

\* What COLOR_CACHE_CONCURRENCY can give: Math.max(1, parseInteger(...)).
Concurrencies == 1 .. MaxConcurrency

\* The two nested loops of main that fill pairs, saturation outermost.
PairsOf(saturationMin, saturationMax, lightnessMin, lightnessMax) ==
  LET width == lightnessMax - lightnessMin + 1
      total == (saturationMax - saturationMin + 1) * width
  IN  [i \in 1 .. total |->
         [saturation |-> saturationMin + ((i - 1) \div width),
          lightness  |-> lightnessMin + ((i - 1) % width)]]

Min(a, b) == IF a <= b THEN a ELSE b

\* A worker: where its loop stands, the index in pairs of the pair it is
\* processing (0 for none) and the indexes it has taken so far.
Worker(state, pair, taken) == [state |-> state, pair |-> pair, taken |-> taken]

\* takeNextPair on nextIndex n: the index in pairs of the pair returned
\* (0 for null) and the new nextIndex.
\* Faulty variant of takeNextPair: nextIndex is not advanced.
takeNextPairKeepsIndex(n, all) ==
  IF n >= Len(all) THEN [pair |-> 0, nextIndex |-> n]
  ELSE [pair |-> n + 1, nextIndex |-> n]

takeNextPair(n, all) ==
  IF n >= Len(all) THEN [pair |-> 0, nextIndex |-> n]
  ELSE [pair |-> n + 1, nextIndex |-> n + 1]

poolFrame == << inputVars, jobVars, hookVars, harnessVars, fetchVars, run, pc,
                samplerVars, workVars, emitVars, result, history >>

\* The head of a worker's loop: takeNextPair, then break or processPair up
\* to its first await.
WorkerTakes(w) ==
  /\ workers[w].state = "ready"
  /\ LET t == takeNextPair(nextIndex, pairs)
     IN  /\ nextIndex' = t.nextIndex
         /\ workers' =
              [workers EXCEPT ![w] =
                 IF t.pair = 0 THEN Worker("finished", 0, @.taken)
                 ELSE Worker("processing", t.pair, Append(@.taken, t.pair))]
  /\ UNCHANGED << poolFrame, concurrency, pairs, processedPairs >>

\* sampleHueSpace has resolved for the worker's pair.
WorkerProcessed(w) ==
  /\ workers[w].state = "processing"
  /\ processedPairs' = processedPairs + 1
  /\ workers' = [workers EXCEPT ![w] = Worker("ready", 0, @.taken)]
  /\ UNCHANGED << poolFrame, concurrency, pairs, nextIndex >>

\* sampleHueSpace has rejected: processPair rethrows and the worker ends;
\* the other workers go on.
WorkerFails(w) ==
  /\ workers[w].state = "processing"
  /\ workers' = [workers EXCEPT ![w] = Worker("failed", @.pair, @.taken)]
  /\ UNCHANGED << poolFrame, concurrency, pairs, nextIndex, processedPairs >>

\* main up to await Promise.all(workers), the workers not yet started.
PoolInit ==
  /\ fakeRanges = Uniform
  /\ saturation = 60
  /\ lightness = 50
  /\ run = 1
  /\ pc = "pool"
  /\ promises = << >>
  /\ values = << >>
  /\ calls = << >>
  /\ queue = << >>
  /\ stack = << >>
  /\ frames = << >>
  /\ cur = NoRange
  /\ fresh = FALSE
  /\ lastSignature = << >>
  /\ lastSegments = << >>
  /\ lastPayload = null
  /\ chunks = << >>
  /\ streamState = "none"
  /\ result = << >>
  /\ history = << >>
  /\ HarnessIdle
  /\ JobIdle
  /\ HookIdle
  /\ FetchIdle
  /\ concurrency \in Concurrencies
  /\ \E saturationMax \in {0, 1}, lightnessMax \in 0 .. MaxLightnessEnd :
       pairs = PairsOf(0, saturationMax, 0, lightnessMax)
  /\ nextIndex = 0
  /\ workers = [w \in 1 .. Min(concurrency, Len(pairs)) |->
                  Worker("ready", 0, << >>)]
  /\ processedPairs = 0

PoolNext ==
  \E w \in DOMAIN workers :
    WorkerTakes(w) \/ WorkerProcessed(w) \/ WorkerFails(w)

PoolSpec == PoolInit /\ [][PoolNext]_vars

TakenBy(w) == Range(workers[w].taken)

Processing == { w \in DOMAIN workers : workers[w].state = "processing" }

Failed == { w \in DOMAIN workers : workers[w].state = "failed" }

\* C38: every saturation/lightness pair is taken by exactly one worker
\* (while all workers succeed no pair is processed twice and none is
\* skipped), and at most concurrency pairs are being processed at any time.
C38_EachPairOnce ==
  /\ \A w \in DOMAIN workers :
       /\ Cardinality(TakenBy(w)) = Len(workers[w].taken)
       /\ \A v \in DOMAIN workers : v # w => TakenBy(v) \cap TakenBy(w) = {}
       /\ w \in Processing =>
            workers[w].pair = Last(workers[w].taken)
  /\ UNION { TakenBy(w) : w \in DOMAIN workers } = 1 .. nextIndex
  /\ nextIndex <= Len(pairs)
  /\ \A i, j \in DOMAIN pairs : pairs[i] = pairs[j] => i = j
  /\ Cardinality(Processing) <= concurrency
  /\ processedPairs + Cardinality(Processing) + Cardinality(Failed) = nextIndex
  /\ (\A w \in DOMAIN workers : workers[w].state = "finished") =>
       /\ nextIndex = Len(pairs)
       /\ processedPairs = Len(pairs)

\* Two workers have shared four pairs and have both left their loops.
C38_Witness ==
  /\ Len(pairs) = 4
  /\ Len(workers) = 2
  /\ \A w \in DOMAIN workers :
       workers[w].state = "finished" /\ workers[w].taken # << >>
  /\ processedPairs = 4

\* ------------------------------------------------------------------------
\* The ranges on the work lists
\* ------------------------------------------------------------------------
\* Every range on the queue, on the stack or in a call of subdivideRange.
RangesListed ==
  Range(queue) \cup Range(stack)
  \cup { WorkItem(frames[i].startHue, frames[i].endHue) : i \in DOMAIN frames }

WellFormedRange(w) ==
  /\ w.startHue \in 0 .. FULL_CIRCLE
  /\ w.endHue \in 0 .. FULL_CIRCLE
  /\ w.startHue < w.endHue

\* The two halves a step has appended to a work list, with the range they
\* were split from.
Halves(before, after) ==
  IF Len(after) = Len(before) + 2
  THEN { << after[Len(after) - 1], after[Len(after)], cur >> }
  ELSE {}

\* The entries of a work list that a step has kept are as they were: the
\* queue loses its head at most, the stack and the call stack their top.
Kept ==
  /\ \E k \in {0, 1} :
       /\ Len(queue') >= Len(queue) - k
       /\ SubSeq(queue', 1, Len(queue) - k) = SubSeq(queue, 1 + k, Len(queue))
  /\ \E k \in {0, 1} :
       /\ Len(stack') >= Len(stack) - k
       /\ SubSeq(stack', 1, Len(stack) - k) = SubSeq(stack, 1, Len(stack) - k)
  /\ \A i \in DOMAIN frames \cap DOMAIN frames' :
       /\ frames'[i].startHue = frames[i].startHue
       /\ frames'[i].endHue = frames[i].endHue
  /\ cur' # cur =>
       \/ queue # << >> /\ queue' = Tail(queue)
            /\ WorkItem(cur'.startHue, cur'.endHue) = Head(queue)
       \/ stack # << >> /\ stack' = Front(stack)
            /\ WorkItem(cur'.startHue, cur'.endHue) = Last(stack)

\* C39: every range placed on a work list has whole endpoints with
\* 0 <= startHue < endHue <= 360; a range that is split is wider than
\* MIN_SPAN and its midpoint lies strictly between its endpoints, so both
\* halves are non-empty, narrower than the range and cover it exactly; and
\* a range is not changed while it is on a work list or being processed.
C39_RangesWellFormedAndSplit ==
  [][ run' = run =>
        /\ \A w \in RangesListed' : WellFormedRange(w)
        /\ \A h \in Halves(queue, queue') \cup Halves(stack, stack') :
             /\ SpanOf(h[3]) > MIN_SPAN
             /\ h[1].startHue = h[3].startHue
             /\ h[1].endHue = h[2].startHue
             /\ h[2].endHue = h[3].endHue
             /\ h[3].startHue < h[1].endHue /\ h[1].endHue < h[3].endHue
             /\ h[1].endHue = h[3].midpoint
        /\ \A p \in SplitPairs :
             /\ SpanOf(p[2]) > MIN_SPAN
             /\ p[2].startHue <= p[1].startHue /\ p[1].endHue <= p[2].endHue
             /\ p[1].startHue < p[1].endHue
             /\ SpanOf(p[1]) < SpanOf(p[2])
        /\ Len(frames') = Len(frames) + 1 /\ frames # << >> =>
             LET parent == Last(frames)
                 child  == Last(frames')
                 middle == Midpoint(parent.startHue, parent.endHue)
             IN  /\ parent.startHue < middle /\ middle < parent.endHue
                 /\ \/ frames'[Len(frames)].stage = "left"
                       /\ child.startHue = parent.startHue
                       /\ child.endHue = middle
                    \/ frames'[Len(frames)].stage = "right"
                       /\ child.startHue = middle
                       /\ child.endHue = parent.endHue
        /\ Kept
    ]_vars

\* A range of span 2 has been split into two ranges of span 1, which are
\* on the queue behind the ranges that were there before.
C39_Witness ==
  /\ pc = "loop"
  /\ SpanOf(cur) = 2
  /\ Len(queue) >= 3
  /\ queue[Len(queue) - 1] = WorkItem(cur.startHue, cur.startHue + 1)
  /\ Last(queue) = WorkItem(cur.startHue + 1, cur.endHue)

=============================================================================
